---------------------------- MODULE Spec2Model ----------------------------
(***************************************************************************)
(* A model of the document classification and heuristic scoring engine of *)
(* intelliDocs_Backend (app/ats_service.py, app/ai_service.py) and of the  *)
(* callers in app/routes.py.                                               *)
(*                                                                         *)
(* Texts are TLA+ strings; the Python string methods and the regular      *)
(* expressions of the source are written out character by character.      *)
(***************************************************************************)
EXTENDS Integers, Sequences, FiniteSets, TLC

VARIABLES
    pc,          \* position of the caller: "idle", "called", "returned", "raised"
    text,        \* the text argument of the call in progress (a string; under
                 \* Spec a Python value with its type, Str(..) or List(..))
    job_description, \* the optional second argument (NoneVal when absent)
    ret,         \* the value returned by the call
    trace,       \* what the call did on the way: the function entered, its
                 \* sub-calls and the events of the summarization backend
    summarizer,  \* the module global _summarizer of ai_service.py
    pipeline,    \* the module global pipeline of ai_service.py (the import's outcome)
    transcripts_db \* the module global transcripts_db of routes.py: the documents
                 \* by their id

vars == <<pc, text, job_description, ret, trace, summarizer, pipeline, transcripts_db>>

\* Python's None, and a value that is not None: an optional value is a
\* sequence of length 0 or 1
NoneVal == <<>>
Some(v) == <<v>>
\* bool(v) of an optional string
Truthy(v) == v # NoneVal /\ v[1] # ""

(***************************************************************************)
(* Python str primitives                                                   *)
(***************************************************************************)
UpperChars == "ABCDEFGHIJKLMNOPQRSTUVWXYZ"
LowerChars == "abcdefghijklmnopqrstuvwxyz"
DigitChars == "0123456789"

CharsOf(s) == {SubSeq(s, i, i) : i \in 1..Len(s)}

UpperSet == CharsOf(UpperChars)
LowerSet == CharsOf(LowerChars)
DigitSet == CharsOf(DigitChars)
LetterSet == UpperSet \cup LowerSet
\* U+017F, the long s: a lower-case letter that str.lower() leaves as it is, a
\* word character for \w and \b, and the same as "s" under re.IGNORECASE.  The
\* strings of TLA+ are ASCII; the texts here write it "$", which they use for
\* nothing else.
LongS == "$"
\* \w of the re module on these texts
WordSet == LetterSet \cup DigitSet \cup {"_", LongS}
\* str.split() and str.strip() whitespace, \s of the re module (ASCII)
SpaceSet == {" ", "\n", "\t", "\r"}

\* s[i] with 1-based i; "" outside the string
Char(s, i) == IF i >= 1 /\ i <= Len(s) THEN SubSeq(s, i, i) ELSE ""

LowerMap == [c \in UpperSet |->
               LET i == CHOOSE k \in 1..26 : SubSeq(UpperChars, k, k) = c
               IN  SubSeq(LowerChars, i, i)]

LowerChar(c) == IF c \in UpperSet THEN LowerMap[c] ELSE c

\* str.lower()
RECURSIVE Lower(_)
Lower(s) ==
    IF Len(s) = 0 THEN ""
    ELSE IF Len(s) = 1 THEN LowerChar(s)
    ELSE LET h == Len(s) \div 2
         IN  Lower(SubSeq(s, 1, h)) \o Lower(SubSeq(s, h + 1, Len(s)))

\* s[i:i+len(k)] == k
MatchAt(s, i, k) == i >= 1 /\ i + Len(k) - 1 <= Len(s) /\ SubSeq(s, i, i + Len(k) - 1) = k

\* the character a literal of a re.IGNORECASE pattern compares c with
FoldChar(c) == IF c = LongS THEN "s" ELSE LowerChar(c)

RECURSIVE Fold(_)
Fold(s) ==
    IF Len(s) = 0 THEN ""
    ELSE IF Len(s) = 1 THEN FoldChar(s)
    ELSE LET h == Len(s) \div 2
         IN  Fold(SubSeq(s, 1, h)) \o Fold(SubSeq(s, h + 1, Len(s)))

\* the same, ignoring case (re.IGNORECASE on a literal); k is lower case
MatchAtCI(s, i, k) ==
    /\ i >= 1 /\ i + Len(k) - 1 <= Len(s)
    /\ FoldChar(Char(s, i)) = Char(k, 1)
    /\ Fold(SubSeq(s, i, i + Len(k) - 1)) = k

\* k in s
Contains(s, k) == \E i \in 1..(Len(s) - Len(k) + 1) : SubSeq(s, i, i + Len(k) - 1) = k

\* every character of s[i..j] is in class
AllIn(s, i, j, class) == \A p \in i..j : Char(s, p) \in class

\* \b at the gap before s[i] (i in 1..len+1)
WordBoundary(s, i) == (Char(s, i - 1) \in WordSet) # (Char(s, i) \in WordSet)

\* len(s.split()): the number of maximal runs of non-whitespace characters
WordCount(s) ==
    Cardinality({i \in 1..Len(s) :
                    Char(s, i) \notin SpaceSet
                    /\ (i = 1 \/ Char(s, i - 1) \in SpaceSet)})

\* s.strip()
Strip(s) ==
    LET keep == {i \in 1..Len(s) : Char(s, i) \notin SpaceSet}
    IN  IF keep = {} THEN ""
        ELSE LET lo == CHOOSE i \in keep : \A j \in keep : i <= j
                 hi == CHOOSE i \in keep : \A j \in keep : i >= j
             IN  SubSeq(s, lo, hi)

ToSet(seq) == {seq[i] : i \in 1..Len(seq)}

\* the end of the longest run of characters of class that starts at lo and lies
\* in lo..hi (lo - 1 if none), found by halving
RECURSIVE RunWithin(_, _, _, _)
RunWithin(s, class, lo, hi) ==
    IF lo > hi THEN lo - 1
    ELSE IF lo = hi THEN (IF Char(s, lo) \in class THEN lo ELSE lo - 1)
    ELSE IF \A p \in lo..((lo + hi) \div 2) : Char(s, p) \in class
         THEN RunWithin(s, class, (lo + hi) \div 2 + 1, hi)
         ELSE RunWithin(s, class, lo, (lo + hi) \div 2)

\* the end of the longest run of characters of class that starts at i (i - 1 if none)
RunEnd(s, i, class) == RunWithin(s, class, i, Len(s))

Max(a, b) == IF a >= b THEN a ELSE b
Min(a, b) == IF a <= b THEN a ELSE b


(***************************************************************************)
(* Regular expressions shared by ats_service.py                            *)
(***************************************************************************)
\* [A-Za-z0-9._%+-]
EmailLocalSet == LetterSet \cup DigitSet \cup {".", "_", "%", "+", "-"}
\* [A-Za-z0-9.-]
EmailDomainSet == LetterSet \cup DigitSet \cup {".", "-"}
\* [A-Z|a-z]
EmailTldSet == LetterSet \cup {"|"}

SetMin(S) == CHOOSE x \in S : \A y \in S : x <= y
SetMax(S) == CHOOSE x \in S : \A y \in S : x >= y

\* the ends e of a match of \.[A-Z|a-z]{2,}\b whose "." is at dot
EmailEnds(s, dot) ==
    {e \in (dot + 2)..RunEnd(s, dot + 1, EmailTldSet) : WordBoundary(s, e + 1)}

\* the positions of the "." that ends [A-Za-z0-9.-]+ after the "@" at position at
EmailDots(s, at) ==
    {dot \in (at + 2)..RunEnd(s, at + 1, EmailDomainSet) :
        Char(s, dot) = "." /\ EmailEnds(s, dot) # {}}

\* the "@" of s that are followed by [A-Za-z0-9.-]+\.[A-Z|a-z]{2,}\b
EmailAts(s) == {at \in 1..Len(s) : Char(s, at) = "@" /\ EmailDots(s, at) # {}}

\* the start of the longest run of [A-Za-z0-9._%+-] that ends before position at
RECURSIVE LocalStart(_, _)
LocalStart(s, at) ==
    IF Char(s, at - 1) \in EmailLocalSet THEN LocalStart(s, at - 1) ELSE at

\* the starts a of \b[A-Za-z0-9._%+-]+@ that lead to a whole match
EmailStarts(s) ==
    UNION {{a \in LocalStart(s, at)..(at - 1) : WordBoundary(s, a)} : at \in EmailAts(s)}

\* re.search(r'\b[A-Za-z0-9._%+-]+@[A-Za-z0-9.-]+\.[A-Z|a-z]{2,}\b', s):
\* the leftmost match, its greedy parts as long as a match allows; NoneVal if none
EmailSearch(s) ==
    IF EmailStarts(s) = {} THEN NoneVal
    ELSE LET a   == SetMin(EmailStarts(s))
             at  == RunEnd(s, a, EmailLocalSet) + 1
             dot == SetMax(EmailDots(s, at))
             e   == SetMax(EmailEnds(s, dot))
         IN  Some(SubSeq(s, a, e))

\* [-.]? then n digits from position i: the position after them, or 0
DigitsFrom(s, i, n) == IF i >= 1 /\ AllIn(s, i, i + n - 1, DigitSet) THEN i + n ELSE 0
OptSep(s, i) == IF i >= 1 /\ Char(s, i) \in {"-", "."} THEN i + 1 ELSE i

\* the position after a match of \d{3}[-.]?\d{3} at i, or 0
Phone6End(s, i) ==
    LET p1 == DigitsFrom(s, i, 3)
    IN  IF p1 = 0 THEN 0 ELSE DigitsFrom(s, OptSep(s, p1), 3)

\* the position after a match of \b\d{3}[-.]?\d{3}[-.]?\d{4}\b at i, or 0
PhoneEnd(s, i) ==
    LET p2 == Phone6End(s, i)
        p3 == IF p2 = 0 THEN 0 ELSE DigitsFrom(s, OptSep(s, p2), 4)
    IN  IF WordBoundary(s, i) /\ p3 # 0 /\ WordBoundary(s, p3) THEN p3 ELSE 0

PhoneStarts(s) == {i \in 1..Len(s) : PhoneEnd(s, i) # 0}

\* re.search(r'\b(\d{3}[-.]?\d{3}[-.]?\d{4})\b', s): the leftmost match or NoneVal
FirstPhone(s, starts) ==
    IF starts = {} THEN NoneVal
    ELSE Some(SubSeq(s, SetMin(starts), PhoneEnd(s, SetMin(starts)) - 1))

PhoneSearch(s) == FirstPhone(s, PhoneStarts(s))

(***************************************************************************)
(* detect_document_type                                                    *)
(***************************************************************************)
resume_keywords ==
    << "education", "experience", "skills", "objective", "summary",
       "certifications", "projects", "work history", "professional experience",
       "bachelor", "master", "phd", "degree", "university", "college",
       "resume", "cv", "curriculum vitae" >>

transcript_keywords ==
    << "meeting", "attendees", "discussion", "action items", "agenda",
       "minutes", "decisions", "next steps", "follow-up", "adjourned",
       "meeting notes", "participants", "date:", "time:" >>

\* sum(1 for keyword in keywords if keyword in s)
RECURSIVE CountPresent(_, _)
CountPresent(keywords, s) ==
    IF keywords = <<>> THEN 0
    ELSE (IF Contains(s, Head(keywords)) THEN 1 ELSE 0) + CountPresent(Tail(keywords), s)

\* the two scores compared at the end of detect_document_type
DetectScores(t) ==
    LET text_lower == Lower(t)
        has_email == EmailSearch(t) # NoneVal
        has_phone == PhoneSearch(t) # NoneVal
    IN  [resume_score     |-> CountPresent(resume_keywords, text_lower)
                              + (IF has_email \/ has_phone THEN 2 ELSE 0),
         transcript_score |-> CountPresent(transcript_keywords, text_lower)]

\* the comparison with >= instead of > (a tie labelled 'resume')
detect_document_type_tie_resume(t) ==
    LET sc == DetectScores(t)
    IN  IF sc.resume_score >= sc.transcript_score THEN "resume" ELSE "transcript"

\* a third label when neither vocabulary nor a contact pattern is found
detect_document_type_unknown(t) ==
    LET sc == DetectScores(t)
    IN  IF sc.resume_score > sc.transcript_score THEN "resume"
        ELSE IF sc.resume_score + sc.transcript_score = 0 THEN "unknown"
        ELSE "transcript"

\* if resume_score > transcript_score: return 'resume'; else: return 'transcript'
HigherScore(sc) == IF sc.resume_score > sc.transcript_score THEN "resume" ELSE "transcript"

detect_document_type(t) == HigherScore(DetectScores(t))

(***************************************************************************)
(* extract_contact_info, check_resume_sections, extract_skills             *)
(***************************************************************************)
\* [a-zA-Z0-9-]
ProfileSet == LetterSet \cup DigitSet \cup {"-"}

\* re.search(prefix + r'([a-zA-Z0-9-]+)', s, re.IGNORECASE) for a literal prefix
ProfileSearch(s, prefix) ==
    LET starts == {i \in 1..Len(s) :
                      MatchAtCI(s, i, prefix) /\ Char(s, i + Len(prefix)) \in ProfileSet}
    IN  IF starts = {} THEN NoneVal
        ELSE LET i == SetMin(starts)
             IN  Some(SubSeq(s, i, RunEnd(s, i + Len(prefix), ProfileSet)))

extract_contact_info(t) ==
    [email    |-> EmailSearch(t),
     phone    |-> PhoneSearch(t),
     linkedin |-> ProfileSearch(t, "linkedin.com/in/"),
     github   |-> ProfileSearch(t, "github.com/")]

\* re.search of an alternation of literals
ContainsAny(s, literals) == \E k \in literals : Contains(s, k)

check_resume_sections(t) ==
    LET text_lower == Lower(t)
    IN  [contact_info |-> \/ ContainsAny(t, {"@", "phone", "email"})
                          \/ \E i \in 1..Len(t) : Phone6End(t, i) # 0,
         summary      |-> ContainsAny(text_lower, {"summary", "objective", "profile"}),
         experience   |-> ContainsAny(text_lower, {"experience", "work history", "employment"}),
         education    |-> ContainsAny(text_lower, {"education", "degree", "university", "college"}),
         skills       |-> ContainsAny(text_lower, {"skills", "technologies", "technical skills"}),
         projects     |-> ContainsAny(text_lower, {"projects", "portfolio"})]

SectionNames == {"contact_info", "summary", "experience", "education", "skills", "projects"}

\* sum(sections.values())
SectionsPresent(sections) == Cardinality({k \in SectionNames : sections[k]})

TechCategories == <<"languages", "frameworks", "cloud", "databases", "tools", "ai_ml">>

TECH_SKILLS ==
    [languages  |-> << "python", "java", "javascript", "typescript", "c++", "c#", "ruby",
                       "php", "swift", "kotlin", "go", "rust", "scala" >>,
     frameworks |-> << "react", "angular", "vue", "django", "flask", "spring", "node.js",
                       "express", "fastapi", "rails", "laravel" >>,
     cloud      |-> << "aws", "azure", "gcp", "docker", "kubernetes", "terraform", "jenkins",
                       "ci/cd", "devops" >>,
     databases  |-> << "sql", "mysql", "postgresql", "mongodb", "redis", "dynamodb",
                       "cassandra", "oracle" >>,
     tools      |-> << "git", "jira", "confluence", "postman", "swagger", "linux", "agile",
                       "scrum" >>,
     ai_ml      |-> << "machine learning", "deep learning", "nlp", "tensorflow", "pytorch",
                       "scikit-learn", "pandas", "numpy" >>]

SOFT_SKILLS ==
    << "leadership", "communication", "teamwork", "problem solving", "analytical",
       "collaboration", "project management", "time management", "adaptability",
       "critical thinking", "creativity", "attention to detail" >>

\* [skill for skill in skills_list if skill in s]
FoundIn(skills_list, s) == SelectSeq(skills_list, LAMBDA skill : Contains(s, skill))

\* found_skills: 'technical' holds only the categories with a skill found
extract_skills(t) ==
    LET text_lower == Lower(t)
        found == [c \in ToSet(TechCategories) |-> FoundIn(TECH_SKILLS[c], text_lower)]
    IN  [technical |-> [c \in {c \in ToSet(TechCategories) : found[c] # <<>>} |-> found[c]],
         soft      |-> FoundIn(SOFT_SKILLS, text_lower)]

RECURSIVE SumOver(_, _)
SumOver(f, S) ==
    IF S = {} THEN 0
    ELSE LET x == CHOOSE y \in S : TRUE IN f[x] + SumOver(f, S \ {x})

\* sum(len(skills_list) for skills_list in skills['technical'].values()) + len(skills['soft'])
TotalSkills(skills) ==
    SumOver([c \in DOMAIN skills.technical |-> Len(skills.technical[c])], DOMAIN skills.technical)
    + Len(skills.soft)

(***************************************************************************)
(* re.finditer, extract_education, extract_experience_years                *)
(***************************************************************************)
\* re.finditer: the matches <<start, end>> of a pattern from position from on,
\* leftmost first and not overlapping; ends[i] is the position after the match
\* of the pattern at i, or 0 when it does not match there
RECURSIVE FindIter(_, _)
FindIter(ends, from) ==
    LET starts == {i \in DOMAIN ends : i >= from /\ ends[i] # 0}
    IN  IF starts = {} THEN <<>>
        ELSE LET i == SetMin(starts)
             IN  <<(<<i, ends[i] - 1>>)>> \o FindIter(ends, ends[i])

\* the matched strings, match.group(0)
Groups0(s, spans) == [k \in 1..Len(spans) |-> SubSeq(s, spans[k][1], spans[k][2])]

\* a literal (lower case) matched ignoring case at i: the position after it, or 0
LitEnd(s, i, lit) == IF i >= 1 /\ MatchAtCI(s, i, lit) THEN i + Len(lit) ELSE 0
\* \.? at i
OptDot(s, i) == IF i >= 1 /\ Char(s, i) = "." THEN i + 1 ELSE i

\* X\.?rest\.? ignoring case, as B\.?Tech\.? : the position after it, or 0
OptDotAfter(s, p) == IF p = 0 THEN 0 ELSE OptDot(s, p)

AbbrevRest(s, p, rest) == IF p = 0 THEN 0 ELSE OptDotAfter(s, LitEnd(s, OptDot(s, p), rest))

AbbrevEnd(s, i, first, rest) == AbbrevRest(s, LitEnd(s, i, first), rest)

\* ['\w\s]
DegreeTailSet == WordSet \cup SpaceSet \cup {"'"}

\* Word['\w\s]* ignoring case
DegreeWordEnd(s, i, word) ==
    IF LitEnd(s, i, word) = 0 THEN 0
    ELSE RunEnd(s, i + Len(word), DegreeTailSet) + 1

\* the first alternative that matches, in the order of the pattern
FirstNonZero(ends) ==
    IF \A k \in 1..Len(ends) : ends[k] = 0 THEN 0
    ELSE ends[SetMin({k \in 1..Len(ends) : ends[k] # 0})]

\* (Bachelor['\w\s]*|B\.?S\.?|B\.?A\.?|B\.?Tech\.?)
BachelorEnd(s, i) ==
    FirstNonZero(<< DegreeWordEnd(s, i, "bachelor"), AbbrevEnd(s, i, "b", "s"),
                    AbbrevEnd(s, i, "b", "a"), AbbrevEnd(s, i, "b", "tech") >>)

\* (Master['\w\s]*|M\.?S\.?|M\.?A\.?|M\.?Tech\.?|MBA)
MasterEnd(s, i) ==
    FirstNonZero(<< DegreeWordEnd(s, i, "master"), AbbrevEnd(s, i, "m", "s"),
                    AbbrevEnd(s, i, "m", "a"), AbbrevEnd(s, i, "m", "tech"),
                    LitEnd(s, i, "mba") >>)

\* (Ph\.?D\.?|Doctorate)
DoctorEnd(s, i) ==
    FirstNonZero(<< AbbrevEnd(s, i, "ph", "d"), LitEnd(s, i, "doctorate") >>)

EducationEntry(degree) ==
    [degree |-> degree,
     level  |-> IF Contains(Lower(degree), "bachelor") \/ Contains(Lower(degree), "b.")
                THEN "undergraduate" ELSE "graduate"]

EducationEntries(degrees) == [k \in 1..Len(degrees) |-> EducationEntry(degrees[k])]

extract_education(t) ==
    EducationEntries(Groups0(t, FindIter([i \in 1..Len(t) |-> BachelorEnd(t, i)], 1))
                     \o Groups0(t, FindIter([i \in 1..Len(t) |-> MasterEnd(t, i)], 1))
                     \o Groups0(t, FindIter([i \in 1..Len(t) |-> DoctorEnd(t, i)], 1)))

\* int(c) of a decimal digit
DigitVal(c) == (CHOOSE k \in 1..10 : SubSeq(DigitChars, k, k) = c) - 1

\* int(s) of a string of four decimal digits
Int4(s) ==
    1000 * DigitVal(Char(s, 1)) + 100 * DigitVal(Char(s, 2))
    + 10 * DigitVal(Char(s, 3)) + DigitVal(Char(s, 4))

\* the separator class [-...] of year_pattern; its en dash and em dash are not
\* ASCII and do not occur in the input texts
DashSet == {"-"}

\* (19|20)\d{2} at i: the position after it, or 0
YearEnd(s, i) ==
    IF i >= 1 /\ (MatchAt(s, i, "19") \/ MatchAt(s, i, "20")) /\ AllIn(s, i + 2, i + 3, DigitSet)
    THEN i + 4 ELSE 0

\* the start of group 3 of year_pattern for a match at i, or 0:
\* \b(19|20)(\d{2})\s*[-]\s*
SkipSpaces(s, p) == IF p = 0 THEN 0 ELSE RunEnd(s, p, SpaceSet) + 1

AfterDash(s, p) == IF p # 0 /\ Char(s, p) \in DashSet THEN RunEnd(s, p + 1, SpaceSet) + 1 ELSE 0

YearRangeGroup3(s, i) ==
    AfterDash(s, SkipSpaces(s, IF WordBoundary(s, i) THEN YearEnd(s, i) ELSE 0))

\* ((19|20)\d{2}|Present|Current)\b at g, the first alternative that leads to a match
Bounded(s, e) == IF e # 0 /\ WordBoundary(s, e) THEN e ELSE 0

Group3End(s, g) ==
    IF g = 0 THEN 0
    ELSE FirstNonZero(<< Bounded(s, YearEnd(s, g)), Bounded(s, LitEnd(s, g, "present")),
                         Bounded(s, LitEnd(s, g, "current")) >>)

YearRangeEnd(s, i) == Group3End(s, YearRangeGroup3(s, i))

\* the Python fixed reference year of 'Present' and 'Current'
PresentYear == 2025

\* match.group(3) of one match <<start, end>>
EndPart(s, span) == SubSeq(s, YearRangeGroup3(s, span[1]), span[2])

\* 'present' in end_part.lower() or 'current' in end_part.lower()
NamesPresent(end_part) ==
    Contains(Lower(end_part), "present") \/ Contains(Lower(end_part), "current")

\* int(end_part) raises ValueError: the end part is not a year and, once
\* lowered, holds neither 'present' nor 'current'
NotAnInt(end_part) ==
    /\ ~NamesPresent(end_part)
    /\ ~(Len(end_part) = 4 /\ AllIn(end_part, 1, 4, DigitSet))

RaisesValueError(s, span) == NotAnInt(EndPart(s, span))

\* year_diff of one match <<start, end>>
EndYear(end_part) == IF NamesPresent(end_part) THEN PresentYear ELSE Int4(end_part)

YearDiff(s, span) == EndYear(EndPart(s, span)) - Int4(SubSeq(s, span[1], span[1] + 3))

RECURSIVE SumSeq(_)
SumSeq(seq) == IF seq = <<>> THEN 0 ELSE Head(seq) + SumSeq(Tail(seq))

\* the try statement encloses the whole loop: the first ValueError ends it, and
\* the differences appended before it are summed
HandledMatches(n, raising) == IF raising = {} THEN n ELSE SetMin(raising) - 1

\* total_years over the matches spans
TotalYears(t, spans) ==
    SumSeq(SelectSeq([k \in 1..HandledMatches(Len(spans),
                                              {k \in 1..Len(spans) : RaisesValueError(t, spans[k])}) |->
                         YearDiff(t, spans[k])],
                     LAMBDA year_diff : year_diff > 0))

extract_experience_years(t) ==
    TotalYears(t, FindIter([i \in 1..Len(t) |-> YearRangeEnd(t, i)], 1))

(***************************************************************************)
(* calculate_keyword_match, calculate_ats_score                            *)
(***************************************************************************)
\* set(re.findall(r'\b[a-z]{3,}\b', s)): the runs of three or more lower-case
\* letters with a word boundary on both sides
WordTokens(s) ==
    LET starts == {a \in 1..Len(s) : Char(s, a) \in LowerSet /\ WordBoundary(s, a)}
        ends   == [a \in starts |-> RunEnd(s, a, LowerSet)]
    IN  {SubSeq(s, a, ends[a]) :
            a \in {a \in starts : ends[a] >= a + 2 /\ WordBoundary(s, ends[a] + 1)}}

stop_words == {"the", "and", "for", "with", "this", "that", "will", "have", "from", "are", "can"}

\* int(k / n * 100) in IEEE double arithmetic, n > 0: the floor of 100 k / n,
\* except that 0.29 * 100, 0.57 * 100 and 0.58 * 100 fall just below 29, 57, 58
IntPercent(k, n) ==
    LET q == (100 * k) \div n
    IN  IF (100 * k) % n = 0 /\ q \in {29, 57, 58} THEN q - 1 ELSE q

calculate_keyword_match(resume_text, jd) ==
    LET resume_lower == Lower(resume_text)
        jd_lower     == Lower(jd)
        jd_words     == WordTokens(jd_lower) \ stop_words
        resume_words == WordTokens(resume_lower)
        matched      == jd_words \cap resume_words
    IN  IF jd_words = {} THEN 0
        ELSE IntPercent(Cardinality(matched), Cardinality(jd_words))

\* the contact factor with nothing added for an email or a phone
ContactPoints_none(contact) == 0

ContactPoints(contact) ==
    (IF Truthy(contact.email) THEN 8 ELSE 0) + (IF Truthy(contact.phone) THEN 7 ELSE 0)

\* the skills factor with nothing added for five skills or fewer
SkillsPoints_no_floor(total_skills) ==
    IF total_skills > 15 THEN 20
    ELSE IF total_skills > 10 THEN 15
    ELSE IF total_skills > 5 THEN 10
    ELSE 0

SkillsPoints(total_skills) ==
    IF total_skills > 15 THEN 20
    ELSE IF total_skills > 10 THEN 15
    ELSE IF total_skills > 5 THEN 10
    ELSE 5

EducationPoints(education) == IF education # <<>> THEN 15 ELSE 0

ExperiencePoints(experience_years) ==
    IF experience_years > 5 THEN 15
    ELSE IF experience_years > 2 THEN 10
    ELSE IF experience_years > 0 THEN 5
    ELSE 0

\* the tiers with 'lower <= word_count <= upper' for the comparisons
WordCountPoints_inclusive(word_count) ==
    IF 400 <= word_count /\ word_count <= 800 THEN 10
    ELSE IF 300 <= word_count /\ word_count <= 1000 THEN 7
    ELSE 3

WordCountPoints(word_count) ==
    IF 400 < word_count /\ word_count < 800 THEN 10
    ELSE IF 300 < word_count /\ word_count < 1000 THEN 7
    ELSE 3

\* the points of the six factors of t; sections is the number of sections
\* present, whose points are sections / 6 * 25
FactorPoints(t) ==
    [contact    |-> ContactPoints(extract_contact_info(t)),
     sections   |-> SectionsPresent(check_resume_sections(t)),
     skills     |-> SkillsPoints(TotalSkills(extract_skills(t))),
     education  |-> EducationPoints(extract_education(t)),
     experience |-> ExperiencePoints(extract_experience_years(t)),
     word_count |-> WordCountPoints(WordCount(t))]

\* the sum with the education points taken off instead of added
Score6Of_education_penalty(points) ==
    6 * (points.contact + points.skills - points.education + points.experience
         + points.word_count)
    + points.sections * 25

\* six times the score before the job description is looked at, a whole number:
\* section_score = sum(sections.values()) / len(sections) * 25, in sixths
Score6Of(points) ==
    6 * (points.contact + points.skills + points.education + points.experience
         + points.word_count)
    + points.sections * 25

Score6(t) == Score6Of(FactorPoints(t))

\* the blend with the keyword match subtracted instead of added
BlendScore_subtract(score6, match_score) ==
    LET num == 7 * score6 - 18 * match_score
    IN  {IF num >= 0 THEN num \div 60 ELSE 0 - ((0 - num) \div 60)}

\* int(score * 0.7 + match_score * 0.3): the values IEEE double arithmetic can
\* give.  The exact blend is (7 score6 + 18 match_score) / 60; the rounding
\* errors of the two products and of the sum are far below 1/60, so int() gives
\* the exact floor unless the exact blend is a whole number, which the rounded
\* sum may reach or miss from below.
BlendScore(score6, match_score) ==
    LET num == 7 * score6 + 18 * match_score
    IN  IF num % 60 = 0 THEN {num \div 60 - 1, num \div 60} ELSE {num \div 60}

max_score == 100

\* the values returned for a score before blending of score6 / 6 and a keyword
\* match of match_score, NoneVal when no job description is given
FinalScore(score6, match_score) ==
    IF match_score # NoneVal
    THEN {Min(blended, max_score) : blended \in BlendScore(score6, match_score[1])}
    ELSE {Min(score6 \div 6, max_score)}

\* calculate_ats_score with 'if job_description is not None' for the test of line 293
calculate_ats_score_blend_empty(t, jd) ==
    FinalScore(Score6(t),
               IF jd # NoneVal THEN Some(calculate_keyword_match(t, jd[1])) ELSE NoneVal)

\* the values calculate_ats_score(t, jd) can return; jd is NoneVal or Some(string)
calculate_ats_score(t, jd) ==
    FinalScore(Score6(t),
               IF Truthy(jd) THEN Some(calculate_keyword_match(t, jd[1])) ELSE NoneVal)

(***************************************************************************)
(* get_improvement_suggestions_ats                                         *)
(***************************************************************************)
AtsSuggestion(priority, category, issue, suggestion) ==
    [priority |-> priority, category |-> category, issue |-> issue, suggestion |-> suggestion]

\* \d+%|\$\d+|\d+\+ at i: the position after the match, or 0
QuantifiedEnd(s, i) ==
    IF Char(s, i) \in DigitSet
    THEN IF Char(s, RunEnd(s, i, DigitSet) + 1) \in {"%", "+"}
         THEN RunEnd(s, i, DigitSet) + 2
         ELSE 0
    ELSE IF Char(s, i) = "$" /\ Char(s, i + 1) \in DigitSet
    THEN RunEnd(s, i + 1, DigitSet) + 1
    ELSE 0

\* re.findall(r'\d+%|\$\d+|\d+\+', t)
QuantifiedNumbers(t) == Groups0(t, FindIter([i \in 1..Len(t) |-> QuantifiedEnd(t, i)], 1))

\* str(n) of an integer n
RECURSIVE IntStr(_)
IntStr(n) ==
    IF n < 0 THEN "-" \o IntStr(0 - n)
    ELSE IF n < 10 THEN Char(DigitChars, n + 1)
    ELSE IntStr(n \div 10) \o Char(DigitChars, (n % 10) + 1)

\* the suggestion appended when the test of a rule holds
When(test, suggestion) == IF test THEN <<suggestion>> ELSE <<>>

\* the suggestions of priority 'high' moved before the others
HighFirst(suggestions) ==
    SelectSeq(suggestions, LAMBDA x : x.priority = "high")
    \o SelectSeq(suggestions, LAMBDA x : x.priority # "high")

\* the list suggestions sorted by priority
get_improvement_suggestions_ats_by_priority(t, sections, skills, contact) ==
    HighFirst(
    When(~Truthy(contact.email),
         AtsSuggestion("high", "contact", "Missing email address",
                       "Add a professional email address at the top of your resume"))
    \o When(~Truthy(contact.phone),
            AtsSuggestion("high", "contact", "Missing phone number",
                          "Include a phone number for easy contact"))
    \o When(~sections.summary,
            AtsSuggestion("medium", "structure", "No professional summary",
                          "Add a 2-3 sentence professional summary at the top highlighting your key strengths"))
    \o When(~sections.skills,
            AtsSuggestion("high", "structure", "No skills section",
                          "Create a dedicated \"Skills\" section listing your technical and soft skills"))
    \o When(~sections.projects,
            AtsSuggestion("medium", "content", "No projects section",
                          "Add a \"Projects\" section showcasing your practical work and achievements"))
    \o When(TotalSkills(skills) < 8,
            AtsSuggestion("medium", "skills", "Limited skills listed",
                          "You have only " \o IntStr(TotalSkills(skills))
                          \o " skills listed. Add more relevant technical and soft skills (aim for 12-15)"))
    \o When(Len(QuantifiedNumbers(t)) < 3,
            AtsSuggestion("medium", "content", "Lack of quantifiable achievements",
                          "Add numbers and metrics to your accomplishments (e.g., \"Increased efficiency by 30%\", \"Managed $50K budget\")")))

\* the list suggestions, a suggestion appended later being later in the list
get_improvement_suggestions_ats(t, sections, skills, contact) ==
    When(~Truthy(contact.email),
         AtsSuggestion("high", "contact", "Missing email address",
                       "Add a professional email address at the top of your resume"))
    \o When(~Truthy(contact.phone),
            AtsSuggestion("high", "contact", "Missing phone number",
                          "Include a phone number for easy contact"))
    \o When(~sections.summary,
            AtsSuggestion("medium", "structure", "No professional summary",
                          "Add a 2-3 sentence professional summary at the top highlighting your key strengths"))
    \o When(~sections.skills,
            AtsSuggestion("high", "structure", "No skills section",
                          "Create a dedicated \"Skills\" section listing your technical and soft skills"))
    \o When(~sections.projects,
            AtsSuggestion("medium", "content", "No projects section",
                          "Add a \"Projects\" section showcasing your practical work and achievements"))
    \o When(TotalSkills(skills) < 8,
            AtsSuggestion("medium", "skills", "Limited skills listed",
                          "You have only " \o IntStr(TotalSkills(skills))
                          \o " skills listed. Add more relevant technical and soft skills (aim for 12-15)"))
    \o When(Len(QuantifiedNumbers(t)) < 3,
            AtsSuggestion("medium", "content", "Lack of quantifiable achievements",
                          "Add numbers and metrics to your accomplishments (e.g., \"Increased efficiency by 30%\", \"Managed $50K budget\")"))

(***************************************************************************)
(* extract_action_items, extract_key_decisions                             *)
(***************************************************************************)
\* the characters [^.!?\n] does not match
SentenceEndSet == {".", "!", "?", "\n"}

\* the end of the longest run of [^.!?\n] that starts at lo and lies in lo..hi
\* (lo - 1 if none), found by halving
RECURSIVE PhraseWithin(_, _, _)
PhraseWithin(s, lo, hi) ==
    IF lo > hi THEN lo - 1
    ELSE IF lo = hi THEN (IF Char(s, lo) \notin SentenceEndSet THEN lo ELSE lo - 1)
    ELSE IF \A p \in lo..((lo + hi) \div 2) : Char(s, p) \notin SentenceEndSet
         THEN PhraseWithin(s, (lo + hi) \div 2 + 1, hi)
         ELSE PhraseWithin(s, lo, (lo + hi) \div 2)

\* the end of the longest run of [^.!?\n] that starts at i (i - 1 if none)
PhraseEnd(s, i) == PhraseWithin(s, i, Len(s))

\* \s{minws,}([^.!?\n]{lo,hi}) at p, \s greedy: the position after the match, or 0.
\* The white space gives characters back to the group until the group is long enough.
SpacesThenPhrase(s, p, minws, lo, hi) ==
    LET most == RunEnd(s, p, SpaceSet) + 1 - p
        fits == {k \in minws..most : PhraseEnd(s, p + k) - (p + k) + 1 >= lo}
    IN  IF p = 0 \/ fits = {} THEN 0
        ELSE LET g == p + SetMax(fits) IN g + Min(PhraseEnd(s, g) - g + 1, hi)

\* an optional character c at i, ignoring case
OptChar(s, i, c) == IF i >= 1 /\ LowerChar(Char(s, i)) = c THEN i + 1 ELSE i

\* the position after the header of patterns[k] at i, or 0:
\* action items?:? | to[- ]do:? | tasks?:? | next steps?:?
ActionHeaderTail(s, lit, k) ==
    IF lit = 0 THEN 0
    ELSE OptChar(s, IF k = 2 THEN lit ELSE OptChar(s, lit, "s"), ":")

ActionHeaderEnd(s, i, k) ==
    ActionHeaderTail(s,
                     CASE k = 1 -> LitEnd(s, i, "action item")
                       [] k = 2 -> Max(LitEnd(s, i, "to-do"), LitEnd(s, i, "to do"))
                       [] k = 3 -> LitEnd(s, i, "task")
                       [] k = 4 -> LitEnd(s, i, "next step"),
                     k)

\* group 1 of patterns[k] matched at i, as <<first, last>>: \s*(.*?)(?:\n\n|\Z)
BlockFrom(s, g) ==
    IF \A b \in g..Len(s) : ~MatchAt(s, b, "\n\n") THEN <<g, Len(s)>>
    ELSE <<g, SetMin({b \in g..Len(s) : MatchAt(s, b, "\n\n")}) - 1>>

ActionBlock(s, i, k) == BlockFrom(s, RunEnd(s, ActionHeaderEnd(s, i, k), SpaceSet) + 1)

\* the position after the match of patterns[k] at i, or 0
AfterBlock(s, block) == IF block[2] = Len(s) THEN Len(s) + 1 ELSE block[2] + 3

ActionPatternEnd(s, i, k) ==
    IF ActionHeaderEnd(s, i, k) = 0 THEN 0 ELSE AfterBlock(s, ActionBlock(s, i, k))

\* \n[-*]|\n\d+\. at i: the position after it, or 0 (the bullet character
\* U+2022 of the pattern is not ASCII and does not occur in the input texts)
BulletEnd(s, i) ==
    IF Char(s, i) # "\n" THEN 0
    ELSE IF Char(s, i + 1) \in {"-", "*"} THEN i + 2
    ELSE LET d == RunEnd(s, i + 1, DigitSet)
         IN  IF d >= i + 1 /\ Char(s, d + 1) = "." THEN d + 2 ELSE 0

\* re.split: the pieces of s around the delimiters spans
SplitAround(s, spans) ==
    [k \in 1..(Len(spans) + 1) |->
        SubSeq(s, IF k = 1 THEN 1 ELSE spans[k - 1][2] + 1,
                  IF k = Len(spans) + 1 THEN Len(s) ELSE spans[k][1] - 1)]

\* the items of one captured block: split, stripped, those longer than 10 kept
KeptItems(items) ==
    SelectSeq([k \in 1..Len(items) |-> Strip(items[k])],
              LAMBDA item : item # "" /\ Len(item) > 10)

BlockItems(items_text) ==
    KeptItems(SplitAround(items_text,
                          FindIter([i \in 1..Len(items_text) |-> BulletEnd(items_text, i)], 1)))

RECURSIVE Flatten(_)
Flatten(seqs) == IF seqs = <<>> THEN <<>> ELSE Head(seqs) \o Flatten(Tail(seqs))

\* the items the header pattern patterns[k] adds, in the order of its matches
Slice(s, span) == SubSeq(s, span[1], span[2])

\* the items of the blocks captured by the matches spans of patterns[k]
SpanItems(s, k, spans) ==
    Flatten([m \in 1..Len(spans) |-> BlockItems(Slice(s, ActionBlock(s, spans[m][1], k)))])

HeaderItems(s, k) ==
    SpanItems(s, k, FindIter([i \in 1..Len(s) |-> ActionPatternEnd(s, i, k)], 1))

VerbTriggers ==
    << <<"need to", "must", "should", "will", "going to", "have to">>,
       <<"complete", "finish", "prepare", "review", "update", "send", "schedule">> >>

\* the position after the match of a trigger pattern at i, or 0:
\* (?:lit1|lit2|...)\s+([^.!?\n]{lo,hi})
TriggerEnd(s, i, lits, lo, hi) ==
    FirstNonZero([k \in 1..Len(lits) |-> SpacesThenPhrase(s, LitEnd(s, i, lits[k]), 1, lo, hi)])

\* [m.strip() for m in matches]
Stripped(found) == [n \in 1..Len(found) |-> Strip(found[n])]

\* match.group(0).strip() of every match of a trigger pattern
TriggerMatches(s, lits, lo, hi) ==
    Stripped(Groups0(s, FindIter([i \in 1..Len(s) |-> TriggerEnd(s, i, lits, lo, hi)], 1)))

\* for item in items: if item and item not in known: known.append(item)
RECURSIVE AppendNew(_, _)
AppendNew(known, items) ==
    IF items = <<>> THEN known
    ELSE AppendNew(IF Head(items) # "" /\ Head(items) \notin ToSet(known)
                   THEN Append(known, Head(items)) ELSE known,
                   Tail(items))

\* the one element of a set of one element; binds a value that is computed once
Only(S) == CHOOSE x \in S : TRUE

\* the list action_items before the duplicates are removed
ActionCandidates(t) ==
    Only({AppendNew(AppendNew(headers, first), second) :
             headers \in {Flatten([k \in 1..4 |-> HeaderItems(t, k)])},
             first \in {TriggerMatches(t, VerbTriggers[1], 10, 100)},
             second \in {TriggerMatches(t, VerbTriggers[2], 10, 100)}})

\* the duplicates removed by exact comparison, as extract_key_decisions does
UniqueItems_exact(items) == AppendNew(<<>>, items)

\* unique_items: the first of the items that are equal in lower case, in order
UniqueItems(items) ==
    LET lowered == [k \in 1..Len(items) |-> Lower(items[k])]
        first == {k \in 1..Len(items) : \A j \in 1..(k - 1) : lowered[j] # lowered[k]}
    IN  [n \in 1..Cardinality(first) |->
            items[CHOOSE k \in first : Cardinality({j \in first : j <= k}) = n]]

\* seq[:n]
Take(seq, n) == SubSeq(seq, 1, Min(n, Len(seq)))

extract_action_items(t) ==
    Only({Take(UniqueItems(items), 10) : items \in {ActionCandidates(t)}})

\* the position after the match of decision pattern k at i, or 0
DecisionEnd(s, i, k) ==
    LET verb  == FirstNonZero([n \in 1..4 |->
                     LitEnd(s, i, <<"decided", "agreed", "approved", "concluded">>[n])])
        prep  == IF verb = 0 \/ Char(s, verb) \notin SpaceSet THEN 0
                 ELSE RunEnd(s, verb, SpaceSet) + 1
        noun  == FirstNonZero([n \in 1..3 |->
                     LitEnd(s, i, <<"decision", "resolution", "agreement">>[n])])
    IN  CASE k = 1 ->
               \* (?:decided|agreed|approved|concluded)\s+(?:to|that|on)\s+([^.!?\n]{10,150})
               FirstNonZero([n \in 1..3 |->
                   SpacesThenPhrase(s, LitEnd(s, prep, <<"to", "that", "on">>[n]), 1, 10, 150)])
          [] k = 2 ->
               \* (?:decision|resolution|agreement):?\s*([^.!?\n]{10,150})
               IF noun = 0 THEN 0
               ELSE FirstNonZero(<< SpacesThenPhrase(s, OptChar(s, noun, ":"), 0, 10, 150),
                                    SpacesThenPhrase(s, noun, 0, 10, 150) >>)
          [] k = 3 ->
               \* (?:we will|we shall|it was decided)\s+([^.!?\n]{10,150})
               TriggerEnd(s, i, <<"we will", "we shall", "it was decided">>, 10, 150)

\* match.group(0).strip() of every match of decision pattern k
DecisionMatches(s, k) ==
    Stripped(Groups0(s, FindIter([i \in 1..Len(s) |-> DecisionEnd(s, i, k)], 1)))

\* the list decisions: a match is added unless the very same string is in the list
DecisionCandidates(t) == AppendNew(<<>>, Flatten([k \in 1..3 |-> DecisionMatches(t, k)]))

extract_key_decisions(t) == Take(DecisionCandidates(t), 5)

(***************************************************************************)
(* get_summarizer, summarize_text                                          *)
(*                                                                         *)
(* A text handed to the functions below is a Python value with its type:   *)
(* upload_text stores whatever JSON value the request carries.             *)
(***************************************************************************)
Str(s) == [type |-> "str", value |-> s]
List(l) == [type |-> "list", value |-> l]

\* the positions where a word of s.split() ends
WordEnds(s) ==
    {i \in 1..Len(s) : Char(s, i) \notin SpaceSet
                       /\ (i = Len(s) \/ Char(s, i + 1) \in SpaceSet)}

\* s[lo..hi] with every run of white space that follows a word replaced by one
\* space and the leading white space dropped; hi is the end of a word
RECURSIVE Squeeze(_, _, _)
Squeeze(s, lo, hi) ==
    IF lo > hi THEN ""
    ELSE IF lo = hi
         THEN IF Char(s, lo) \notin SpaceSet THEN Char(s, lo)
              ELSE IF lo > 1 /\ Char(s, lo - 1) \notin SpaceSet THEN " " ELSE ""
    ELSE Squeeze(s, lo, (lo + hi) \div 2) \o Squeeze(s, (lo + hi) \div 2 + 1, hi)

\* the position where the n-th word of s ends, looked for in lo..hi
RECURSIVE NthWordEnd(_, _, _, _)
NthWordEnd(s, n, lo, hi) ==
    IF lo >= hi THEN lo
    ELSE IF Cardinality(WordEnds(SubSeq(s, 1, (lo + hi) \div 2 + 1))
                        \cap 1..((lo + hi) \div 2)) >= n
         THEN NthWordEnd(s, n, lo, (lo + hi) \div 2)
         ELSE NthWordEnd(s, n, (lo + hi) \div 2 + 1, hi)

\* ' '.join(s.split()[:n]) for a text of at least n words, n >= 1
JoinFirstWords(s, n) == Squeeze(s, 1, NthWordEnd(s, n, 1, Len(s)))

\* the text handed to the summarizer: cut to 900 words when it has more
TruncateWords(s) == IF WordCount(s) > 900 THEN JoinFirstWords(s, 900) ELSE s

\* text[:300]
First300(s) == SubSeq(s, 1, Min(300, Len(s)))

\* the fallback summarizer: lambda text, **kwargs: [{"summary_text": ...}]
dummy_summarizer_first200(t) ==
    << [summary_text |-> SubSeq(t, 1, Min(200, Len(t))) \o "... (summary unavailable)"] >>

dummy_summarizer(t) == << [summary_text |-> First300(t) \o "... (summary unavailable)"] >>

\* what loading the model can do, and what the loaded model can do when it is
\* invoked: return a summary, raise, or return a list without an entry
LoadOutcomes == {"ok", "raises"}

ModelSummaries == {"The team agreed on the budget.", ""}

InvokeOutcomes ==
    {[kind |-> "returns", summary_text |-> s, message |-> ""] : s \in ModelSummaries}
    \cup {[kind |-> "raises", summary_text |-> "", message |-> "CUDA out of memory"],
          [kind |-> "malformed", summary_text |-> "", message |-> "list index out of range"]}

\* the value of _summarizer after get_summarizer(): NoneVal, Some("model") or
\* Some("dummy"); available is the name pipeline the import left, NoneVal or
\* Some("pipeline"); an exception of the load is caught
get_summarizer(current, available, load) ==
    IF current # NoneVal THEN current
    ELSE IF available = NoneVal THEN Some("dummy")
    ELSE IF load = "ok" THEN Some("model")
    ELSE Some("dummy")

\* what get_summarizer() did, for the trace of the call
LoadEvents(current, available, load) ==
    IF current # NoneVal \/ available = NoneVal THEN <<"get_summarizer">>
    ELSE IF load = "ok" THEN <<"get_summarizer", "load_ok">>
    ELSE <<"get_summarizer", "load_raised">>

\* round(a / b, 2) in hundredths; a float that lies half way may go either way
Round2(a, b) ==
    LET q == (100 * a) \div b
        r == (100 * a) % b
    IN  IF 2 * r < b THEN {q} ELSE IF 2 * r > b THEN {q + 1} ELSE {q, q + 1}

\* if len(text.split()) < 30
too_short_never(t) == FALSE

too_short(t) == WordCount(t) < 30

\* the outcome of a call: it returned value or raised the exception value,
\* leaving _summarizer as given, having gone through the events
Outcome(raised, value, global, events) ==
    [raised |-> raised, value |-> value, summarizer |-> global, events |-> events]

\* the statements inside the try of summarize_text
SummarizeBody(t, current, available, load, invoke) ==
    IF t.type # "str"
    THEN {Outcome(TRUE, [exception |-> "'list' object has no attribute 'split'"], current, <<>>)}
    ELSE IF too_short(t.value)
    THEN {Outcome(FALSE,
                  [summary |-> Some(t.value),
                   note |-> "Text is too short to summarize effectively",
                   original_length |-> WordCount(t.value),
                   summary_length |-> WordCount(t.value)],
                  current, <<>>)}
    ELSE LET loaded == get_summarizer(current, available, load)
             events == LoadEvents(current, available, load)
             cut    == TruncateWords(t.value)
             result == IF loaded = Some("dummy") THEN dummy_summarizer(cut)
                       ELSE IF invoke.kind = "returns"
                            THEN << [summary_text |-> invoke.summary_text] >>
                            ELSE <<>>
         IN  IF loaded = Some("model") /\ invoke.kind = "raises"
             THEN {Outcome(TRUE, [exception |-> invoke.message], loaded,
                           events \o <<"invoke_raised">>)}
             ELSE IF result = <<>>
             THEN {Outcome(TRUE, [exception |-> invoke.message], loaded,
                           events \o <<"invoke_malformed">>)}
             ELSE IF WordCount(cut) = 0
             THEN {Outcome(TRUE, [exception |-> "division by zero"], loaded,
                           events \o <<"invoke">>)}
             ELSE {Outcome(FALSE,
                           [summary |-> Some(result[1].summary_text),
                            original_length |-> WordCount(cut),
                            summary_length |-> WordCount(result[1].summary_text),
                            compression_ratio |-> ratio],
                           loaded, events \o <<"invoke">>) :
                      ratio \in Round2(WordCount(result[1].summary_text), WordCount(cut))}

\* except Exception as e: the failed result
FailedResult(o) ==
    IF o.raised
    THEN [o EXCEPT !.raised = FALSE,
                   !.value = [summary |-> NoneVal, error |-> o.value.exception,
                              note |-> "Summarization failed"]]
    ELSE o

\* summarize_text without its except clause
summarize_text_uncaught(t, current, available, load, invoke) ==
    SummarizeBody(t, current, available, load, invoke)

\* the possible outcomes of summarize_text(text)
summarize_text(t, current, available, load, invoke) ==
    {FailedResult(o) : o \in SummarizeBody(t, current, available, load, invoke)}

(***************************************************************************)
(* calculate_simple_readability, suggest_improvements                      *)
(***************************************************************************)
\* [.!?]
SentencePunctSet == {".", "!", "?"}

\* [.!?]+ at i: the position after the run, or 0
PunctRunEnd(s, i) ==
    IF Char(s, i) \in SentencePunctSet THEN RunEnd(s, i, SentencePunctSet) + 1 ELSE 0

\* re.split(r'[.!?]+', text)
SentenceFragments(t) ==
    SplitAround(t, FindIter([i \in 1..Len(t) |-> PunctRunEnd(t, i)], 1))

\* [s.strip() for s in sentences if s]: the blank fragments are not dropped
Sentences_unstripped(t) ==
    SelectSeq([k \in 1..Len(SentenceFragments(t)) |-> Strip(SentenceFragments(t)[k])],
              LAMBDA sentence : TRUE)

\* [s.strip() for s in sentences if s.strip()]
Sentences(t) ==
    SelectSeq([k \in 1..Len(SentenceFragments(t)) |-> Strip(SentenceFragments(t)[k])],
              LAMBDA sentence : sentence # "")

\* len([w for w in words if len(w) > 7])
ComplexWordCount(s) ==
    Cardinality({i \in 1..Len(s) :
                    /\ i = 1 \/ Char(s, i - 1) \in SpaceSet
                    /\ \A k \in 0..7 : i + k <= Len(s) /\ Char(s, i + k) \notin SpaceSet})

\* n is a power of two
RECURSIVE IsPowerOfTwo(_)
IsPowerOfTwo(n) == n = 1 \/ (n > 1 /\ n % 2 = 0 /\ IsPowerOfTwo(n \div 2))

RECURSIVE Gcd(_, _)
Gcd(a, b) == IF b = 0 THEN a ELSE Gcd(b, a % b)

\* the float a / b is the quotient itself
ExactQuotient(a, b) == IsPowerOfTwo(b \div Gcd(a, b))

\* the same without max(0, min(100, readability))
ReadabilityOf_unclamped(w, n, c) ==
    LET length2 == Max(0, 130 * n - 2 * w)
        num == IF w = 0 THEN (length2 + 100 * n)
               ELSE length2 * w + 100 * (w - c) * n
        den == IF w = 0 THEN 2 * n ELSE 2 * n * w
    IN  {num \div den}

\* int((length_score + complexity_score) / 2) clamped to 0..100, for w words,
\* n sentences and c complex words.  With exact arithmetic the value before int()
\* is num / den; the floats give its floor, except that a whole num / den reached
\* through a rounded quotient may come out one lower.
ReadabilityOf(w, n, c) ==
    LET length2 == Max(0, 130 * n - 2 * w)             \* length_score * n
        num == IF w = 0 THEN (length2 + 100 * n)
               ELSE length2 * w + 100 * (w - c) * n
        den == IF w = 0 THEN 2 * n ELSE 2 * n * w
        low == num \div den
        clamp(x) == Max(0, Min(100, x))
    IN  IF num % den = 0 /\ low > 0 /\ w > 0
           /\ ~(ExactQuotient(w, n) /\ ExactQuotient(c, w))
        THEN {clamp(low - 1), clamp(low)}
        ELSE {clamp(low)}

\* the values calculate_simple_readability(text) can return
calculate_simple_readability(t) ==
    IF Sentences(t) = <<>> THEN {50}
    ELSE ReadabilityOf(WordCount(t), Len(Sentences(t)), ComplexWordCount(t))

\* \s*$ under re.MULTILINE at p: white space up to the end of the text or of a line
WsThenEol(s, p) ==
    \/ RunEnd(s, p, SpaceSet) = Len(s)
    \/ \E q \in p..RunEnd(s, p, SpaceSet) : Char(s, q) = "\n"

\* re.search(r'^[A-Z][^.!?\n]{3,50}:?\s*$', text, re.MULTILINE)
has_headings(t) ==
    \E i \in 1..Len(t) :
        /\ i = 1 \/ Char(t, i - 1) = "\n"
        /\ Char(t, i) \in UpperSet
        /\ \E m \in 3..Min(50, PhraseEnd(t, i + 1) - i) :
              \/ WsThenEol(t, i + 1 + m)
              \/ Char(t, i + 1 + m) = ":" /\ WsThenEol(t, i + 2 + m)

\* \d{1,2}[/-]\d{1,2}[/-]\d{2,4} at i
NumericDateAt(s, i) ==
    \E a \in {1, 2}, b \in {1, 2} :
        /\ AllIn(s, i, i + a - 1, DigitSet)
        /\ Char(s, i + a) \in {"/", "-"}
        /\ AllIn(s, i + a + 1, i + a + b, DigitSet)
        /\ Char(s, i + a + b + 1) \in {"/", "-"}
        /\ AllIn(s, i + a + b + 2, i + a + b + 3, DigitSet)

\* \w+ \d{1,2},? \d{4} with the first space at p
WrittenDateAt(s, p) ==
    /\ Char(s, p - 1) \in WordSet
    /\ Char(s, p) = " "
    /\ \E a \in {1, 2} :
          /\ AllIn(s, p + 1, p + a, DigitSet)
          /\ \/ Char(s, p + a + 1) = " " /\ AllIn(s, p + a + 2, p + a + 5, DigitSet)
             \/ /\ Char(s, p + a + 1) = "," /\ Char(s, p + a + 2) = " "
                /\ AllIn(s, p + a + 3, p + a + 6, DigitSet)

\* re.search(r'\d{1,2}[/-]\d{1,2}[/-]\d{2,4}|\w+ \d{1,2},? \d{4}', text)
has_date(t) == \E i \in 1..Len(t) : NumericDateAt(t, i) \/ WrittenDateAt(t, i)

\* re.search(r'(?i)(?:attendees?|participants?|present):', text)
has_attendees(t) ==
    ContainsAny(Lower(t), {"attendee:", "attendees:", "participant:", "participants:",
                           "present:"})

\* re.search(r'(?i)(?:action items?|to[- ]do|tasks?|next steps?):', text)
has_actions(t) ==
    ContainsAny(Lower(t), {"action item:", "action items:", "to-do:", "to do:",
                           "task:", "tasks:", "next step:", "next steps:"})

\* \b(?:was|were|been|being)\s+\w+ed\b at i: the position after the match, or 0
PassiveEnd(s, i) ==
    IF ~WordBoundary(s, i) THEN 0
    ELSE FirstNonZero([k \in 1..4 |->
            LET p == i + Len(<<"was", "were", "been", "being">>[k])
                g == RunEnd(s, p, SpaceSet) + 1
                w == RunEnd(s, g, WordSet)
            IN  IF /\ MatchAt(s, i, <<"was", "were", "been", "being">>[k])
                   /\ g > p
                   /\ w - g + 1 >= 3
                   /\ SubSeq(s, w - 1, w) = "ed"
                THEN w + 1 ELSE 0])

\* len(re.findall(...))
passive_voice_count(t) == Len(FindIter([i \in 1..Len(t) |-> PassiveEnd(t, i)], 1))

Suggestion(type, issue, suggestion) == [type |-> type, issue |-> issue, suggestion |-> suggestion]

\* the list suggestions, in the order of the checks
Suggestions(t) ==
    (IF ~has_headings(t)
     THEN <<Suggestion("structure", "No clear headings or sections",
                       "Add clear section headings like \"Discussion Points\", \"Decisions\", \"Action Items\"")>>
     ELSE <<>>)
    \o (IF ~has_date(t)
        THEN <<Suggestion("metadata", "No date found",
                          "Add the meeting/document date at the top")>>
        ELSE <<>>)
    \o (IF ~has_attendees(t) /\ Contains(Lower(t), "meeting")
        THEN <<Suggestion("metadata", "No attendees listed",
                          "List meeting attendees for better context")>>
        ELSE <<>>)
    \o (IF ~has_actions(t)
        THEN <<Suggestion("content", "No clear action items section",
                          "Add an \"Action Items\" section to track follow-ups")>>
        ELSE <<>>)
    \o (IF WordCount(t) < 50
        THEN <<Suggestion("completeness", "Document is very short",
                          "Consider adding more detail about discussions and outcomes")>>
        ELSE IF WordCount(t) > 1000
        THEN <<Suggestion("conciseness", "Document is very long",
                          "Consider breaking into sections or creating a summary at the top")>>
        ELSE <<>>)
    \o (IF passive_voice_count(t) > 5
        THEN <<Suggestion("clarity", "Frequent use of passive voice",
                          "Use active voice for clearer communication (e.g., \"John completed\" instead of \"was completed by John\")")>>
        ELSE <<>>)

\* the values suggest_improvements(text) can return
suggest_improvements(t) ==
    {[total_suggestions |-> Len(suggestions),
      suggestions |-> suggestions,
      word_count |-> WordCount(t),
      readability_score |-> score] :
        suggestions \in {Suggestions(t)}, score \in calculate_simple_readability(t)}

(***************************************************************************)
(* analyze_text                                                            *)
(***************************************************************************)
\* datetime.utcnow().isoformat()
Timestamps == {"2025-03-14T09:00:00", "2025-03-14T09:00:01"}

\* the three steps of analyze_text that follow the summary, which read nothing
\* but the text: the values they can give, or the TypeError re.finditer raises
\* in extract_action_items on a text that is not a string
AnalysisSteps(t) ==
    IF t.type # "str"
    THEN {[raised |-> TRUE,
           exception |-> "expected string or bytes-like object, got 'list'"]}
    ELSE {[raised |-> FALSE,
           action_items |-> extract_action_items(t.value),
           key_decisions |-> extract_key_decisions(t.value),
           improvements |-> improvements] :
             improvements \in suggest_improvements(t.value)}

\* the possible outcomes of analyze_text(text), steps being what the three steps
\* after the summary give: the steps run one after the other with no except
\* clause around them
analyze_text(t, steps, current, available, load, invoke, now) ==
    {IF steps.raised
     THEN Outcome(TRUE, [exception |-> steps.exception], s.summarizer,
                  <<"summarize_text">> \o s.events \o <<"extract_action_items">>)
     ELSE Outcome(FALSE,
                  [summary |-> s.value,
                   action_items |-> steps.action_items,
                   key_decisions |-> steps.key_decisions,
                   improvements |-> steps.improvements,
                   analyzed_at |-> now],
                  s.summarizer,
                  <<"summarize_text">> \o s.events
                     \o <<"extract_action_items", "extract_key_decisions",
                          "suggest_improvements">>) :
        s \in summarize_text(t, current, available, load, invoke)}

(***************************************************************************)
(* Input texts: lines of a catalogue joined by "\n"                        *)
(***************************************************************************)
RECURSIVE Compose(_, _)
Compose(lines, k) ==
    IF k = 0 THEN {""}
    ELSE LET shorter == Compose(lines, k - 1)
         IN  shorter \cup {IF t = "" THEN l ELSE t \o "\n" \o l : t \in shorter, l \in lines}

\* the longest classifier input, in lines
MaxClassifyLines == 3
\* how often the classifier is called on one text
MaxDetectCalls == 2

ClassifyLines ==
    { "Education", "Professional Experience at Acme", "Meeting Notes",
      "Agenda", "Mail john@example.com", "555-123-4567 is my CV" }

ClassifyTexts == Compose(ClassifyLines, MaxClassifyLines)

(***************************************************************************)
(* The classifier applied to a drawn text, possibly more than once         *)
(***************************************************************************)
InitClassify ==
    /\ text \in ClassifyTexts
    /\ pc = "called"
    /\ job_description = NoneVal
    /\ ret = <<>>
    /\ trace = <<>>
    /\ summarizer = NoneVal
    /\ pipeline = Some("pipeline")
    /\ transcripts_db = <<>>

\* one call detect_document_type(text); ret collects the label of every call
DetectDocumentType ==
    /\ pc = "called"
    /\ Len(ret) < MaxDetectCalls
    /\ ret' = Append(ret, detect_document_type(text))
    /\ UNCHANGED <<pc, text, job_description, trace, summarizer, pipeline, transcripts_db>>

NextClassify == DetectDocumentType

SpecClassify == InitClassify /\ [][NextClassify]_vars

(***************************************************************************)
(* calculate_ats_score applied to a drawn resume and job description       *)
(***************************************************************************)
RECURSIVE Repeat(_, _)
Repeat(s, n) ==
    IF n = 0 THEN ""
    ELSE IF n % 2 = 1 THEN s \o Repeat(s, n - 1)
    ELSE LET half == Repeat(s, n \div 2) IN half \o half

AtsLines ==
    << "john@example.com",
       "555-123-4567",
       "Objective",
       "Experience 2019-2023",
       "Education: Bachelor of Science",
       "Skills: Python, React, AWS, Docker, SQL, leadership, communication",
       "Projects",
       "java javascript typescript ruby php swift kotlin rust scala django flask",
       "2010-Present" >>

\* the lines of AtsLines with their index in chosen, in order, one per line
RECURSIVE JoinLines(_, _, _)
JoinLines(lines, chosen, k) ==
    IF k > Len(lines) THEN ""
    ELSE (IF k \in chosen THEN lines[k] \o "\n" ELSE "") \o JoinLines(lines, chosen, k + 1)

\* the most lines of AtsLines in one short resume
MaxAtsLines == 3

AllAtsLines == 1..Len(AtsLines)

\* resumes without filler words: a few lines, or all the lines
ShortAtsTexts ==
    {JoinLines(AtsLines, chosen, 1) :
        chosen \in {c \in SUBSET AllAtsLines : Cardinality(c) <= MaxAtsLines} \cup {AllAtsLines}}

\* resumes padded with filler words into the middle word-count tiers
LongAtsTexts ==
    {JoinLines(AtsLines, chosen, 1) \o Repeat("x ", n) :
        chosen \in {{}, {1, 2}, AllAtsLines}, n \in {350, 450}}

AtsTexts == ShortAtsTexts \cup LongAtsTexts

JobDescriptions ==
    { NoneVal, Some(""),
      Some("Looking for a Python developer with AWS and Docker experience"),
      Some("Can you have this"),
      Some("python java") }

InitAts ==
    /\ text \in AtsTexts
    /\ job_description \in JobDescriptions
    /\ pc = "called"
    /\ ret = NoneVal
    /\ trace = <<>>
    /\ summarizer = NoneVal
    /\ pipeline = Some("pipeline")
    /\ transcripts_db = <<>>

\* the call calculate_ats_score(text, job_description)
CalculateAtsScore ==
    /\ pc = "called"
    /\ \E score \in calculate_ats_score(text, job_description) : ret' = Some(score)
    /\ pc' = "returned"
    /\ UNCHANGED <<text, job_description, trace, summarizer, pipeline, transcripts_db>>

NextAts == CalculateAtsScore

SpecAts == InitAts /\ [][NextAts]_vars

(***************************************************************************)
(* extract_action_items and extract_key_decisions applied to a drawn text  *)
(***************************************************************************)
\* paragraphs of a catalogue joined by an empty line
RECURSIVE ComposeParagraphs(_, _)
ComposeParagraphs(paragraphs, k) ==
    IF k = 0 THEN {""}
    ELSE LET shorter == ComposeParagraphs(paragraphs, k - 1)
         IN  shorter \cup {IF t = "" THEN q ELSE t \o "\n\n" \o q : t \in shorter, q \in paragraphs}

\* the longest transcript, in paragraphs
MaxParagraphs == 2

TranscriptParagraphs ==
    { "Action Items:\n- Send the report to Bob\n- send the report to bob",
      "We must finish the budget review.",
      "we MUST finish the budget review",
      "Next Steps:\n- Email the vendor list\n- Book the meeting room\n- Draft the project plan",
      "We will review the budget today.",
      "we will review the budget today.",
      "It was decided to hire two engineers.",
      "Decision: hire two engineers now" }

\* twelve different sentences, each an action item and a decision
ManyItemsText ==
    "We will call client number 01. We will call client number 02. "
    \o "We will call client number 03. We will call client number 04. "
    \o "We will call client number 05. We will call client number 06. "
    \o "We will call client number 07. We will call client number 08. "
    \o "We will call client number 09. We will call client number 10. "
    \o "We will call client number 11. We will call client number 12."

TranscriptTexts == ComposeParagraphs(TranscriptParagraphs, MaxParagraphs) \cup {ManyItemsText}

InitExtract ==
    /\ text \in TranscriptTexts
    /\ pc = "called"
    /\ job_description = NoneVal
    /\ ret = <<>>
    /\ trace = <<>>
    /\ summarizer = NoneVal
    /\ pipeline = Some("pipeline")
    /\ transcripts_db = <<>>

\* the call extract_action_items(text)
ExtractActionItems ==
    /\ pc = "called"
    /\ ret' = extract_action_items(text)
    /\ trace' = <<"extract_action_items">>
    /\ pc' = "returned"
    /\ UNCHANGED <<text, job_description, summarizer, pipeline, transcripts_db>>

\* the call extract_key_decisions(text)
ExtractKeyDecisions ==
    /\ pc = "called"
    /\ ret' = extract_key_decisions(text)
    /\ trace' = <<"extract_key_decisions">>
    /\ pc' = "returned"
    /\ UNCHANGED <<text, job_description, summarizer, pipeline, transcripts_db>>

NextExtract == ExtractActionItems \/ ExtractKeyDecisions

SpecExtract == InitExtract /\ [][NextExtract]_vars

(***************************************************************************)
(* extract_action_items applied to a 'Next Steps:' header followed by      *)
(* three bulleted lines                                                    *)
(***************************************************************************)
\* the lines under the header of a drawn text
NextStepsLineCount == 3

BulletMarks == {"- ", "* "}

NextStepsItems ==
    { "Email the vendor list", "Book the meeting room", "Draft the project plan",
      "Send the report to Bob", "Call Bob" }

\* the header on a line of its own, then the lines, each begun by the mark
RECURSIVE BulletedLines(_, _)
BulletedLines(mark, lines) ==
    IF lines = <<>> THEN ""
    ELSE "\n" \o mark \o Head(lines) \o BulletedLines(mark, Tail(lines))

NextStepsText(mark, lines) == "Next Steps:" \o BulletedLines(mark, lines)

NextStepsTexts ==
    {NextStepsText(mark, lines) :
        mark \in BulletMarks, lines \in [1..NextStepsLineCount -> NextStepsItems]}

InitNextSteps ==
    /\ text \in NextStepsTexts
    /\ pc = "called"
    /\ job_description = NoneVal
    /\ ret = <<>>
    /\ trace = <<>>
    /\ summarizer = NoneVal
    /\ pipeline = Some("pipeline")
    /\ transcripts_db = <<>>

NextNextSteps == ExtractActionItems

SpecNextSteps == InitNextSteps /\ [][NextNextSteps]_vars

(***************************************************************************)
(* Calls of summarize_text in one process: the global _summarizer lives    *)
(* from one call to the next                                               *)
(***************************************************************************)
\* the number of words of the longest text; summarize_text cuts at 900
LongTextWords == 901

MeetingTranscript ==
    "Project sync on 03/14/2025\nAttendees: Ann, Bob\n\n"
    \o "The rollout was delayed because the vendor was late. "
    \o "We decided to move the launch date by two weeks. "
    \o "Bob will send the revised schedule tomorrow.\n\n"
    \o "Action Items:\n- Update the launch checklist\n- Notify the support team"

TextValues ==
    { Str(""),
      Str("Hello team."),
      Str(Repeat("w ", 29)),
      Str(Repeat("word ", 30)),
      Str(Repeat("meeting\n", 40)),
      Str(Repeat("a\n", LongTextWords)),
      Str(MeetingTranscript),
      List(<<"a", "b">>) }

Init ==
    /\ text \in TextValues
    /\ pc = "called"
    /\ job_description = NoneVal
    /\ ret = <<>>
    /\ trace = <<>>
    /\ summarizer = NoneVal
    /\ pipeline \in {NoneVal, Some("pipeline")}
    /\ transcripts_db = <<>>

\* the call summarize_text(text)
SummarizeText ==
    /\ pc = "called"
    /\ \E load \in LoadOutcomes, invoke \in InvokeOutcomes :
          \E o \in summarize_text(text, summarizer, pipeline, load, invoke) :
              /\ pc' = IF o.raised THEN "raised" ELSE "returned"
              /\ ret' = o.value
              /\ summarizer' = o.summarizer
              /\ trace' = <<"summarize_text">> \o o.events
    /\ UNCHANGED <<text, job_description, pipeline, transcripts_db>>

\* the call analyze_text(text)
AnalyzeText ==
    /\ pc = "called"
    /\ \E steps \in AnalysisSteps(text) :
       \E load \in LoadOutcomes, invoke \in InvokeOutcomes, now \in Timestamps :
          \E o \in analyze_text(text, steps, summarizer, pipeline, load, invoke, now) :
              /\ pc' = IF o.raised THEN "raised" ELSE "returned"
              /\ ret' = o.value
              /\ summarizer' = o.summarizer
              /\ trace' = <<"analyze_text">> \o o.events
    /\ UNCHANGED <<text, job_description, pipeline, transcripts_db>>

\* the caller goes on to its next call, with the text of some document
NextCall ==
    /\ pc \in {"returned", "raised"}
    /\ pc' = "called"
    /\ text' \in TextValues
    /\ ret' = <<>>
    /\ trace' = <<>>
    /\ UNCHANGED <<job_description, summarizer, pipeline, transcripts_db>>

Next == SummarizeText \/ AnalyzeText \/ NextCall

Spec == Init /\ [][Next]_vars

(***************************************************************************)
(* calculate_simple_readability applied to a drawn text                    *)
(***************************************************************************)
\* the texts made of at most k pieces, one after the other
RECURSIVE ConcatPieces(_, _)
ConcatPieces(pieces, k) ==
    IF k = 0 THEN {""}
    ELSE ConcatPieces(pieces, k - 1)
         \cup {t \o q : t \in ConcatPieces(pieces, k - 1), q \in pieces}

\* the longest text, in pieces
MaxPieces == 3

ReadabilityPieces == {" ", ".", "!", "?", "\n", "a", "documentation ", "We met today"}

ReadabilityTexts == ConcatPieces(ReadabilityPieces, MaxPieces)

InitReadability ==
    /\ text \in ReadabilityTexts
    /\ pc = "called"
    /\ job_description = NoneVal
    /\ ret = <<>>
    /\ trace = <<>>
    /\ summarizer = NoneVal
    /\ pipeline = Some("pipeline")
    /\ transcripts_db = <<>>

\* the call calculate_simple_readability(text)
CalculateSimpleReadability ==
    /\ pc = "called"
    /\ \E score \in calculate_simple_readability(text) : ret' = Some(score)
    /\ trace' = <<"calculate_simple_readability">>
    /\ pc' = "returned"
    /\ UNCHANGED <<text, job_description, summarizer, pipeline, transcripts_db>>

NextReadability == CalculateSimpleReadability

SpecReadability == InitReadability /\ [][NextReadability]_vars

(***************************************************************************)
(* calculate_keyword_match applied to a drawn resume and job description   *)
(***************************************************************************)
\* the i-th of a list of different three-letter words, none a stop word
KeywordToken(i) ==
    SubSeq(LowerChars, (i \div 26) + 1, (i \div 26) + 1)
    \o SubSeq(LowerChars, (i % 26) + 1, (i % 26) + 1) \o "q"

\* the words KeywordToken(0) .. KeywordToken(n - 1) separated by spaces
RECURSIVE KeywordList(_)
KeywordList(n) ==
    IF n = 0 THEN "" ELSE IF n = 1 THEN KeywordToken(0)
    ELSE KeywordList(n - 1) \o " " \o KeywordToken(n - 1)

\* the most words a job description has
MaxJdTokens == 50

\* <<resume, job description>> pairs: a resume with the first k of the n words
\* of the job description, and some written by hand
KeywordPairs ==
    {<<KeywordList(k), KeywordList(n)>> : k \in {0, 1, 2, 29}, n \in 1..MaxJdTokens}
    \cup {<<"Python AND Java3 the", "python java the cat">>,
          <<"anything", "">>,
          <<"the and for", "The AND for with">>,
          <<"we can ship", "We will ship it to the dock">>}

InitKeywordMatch ==
    /\ \E pair \in KeywordPairs : text = pair[1] /\ job_description = Some(pair[2])
    /\ pc = "called"
    /\ ret = <<>>
    /\ trace = <<>>
    /\ summarizer = NoneVal
    /\ pipeline = Some("pipeline")
    /\ transcripts_db = <<>>

\* the call calculate_keyword_match(text, job_description)
CalculateKeywordMatch ==
    /\ pc = "called"
    /\ ret' = Some(calculate_keyword_match(text, job_description[1]))
    /\ trace' = <<"calculate_keyword_match">>
    /\ pc' = "returned"
    /\ UNCHANGED <<text, job_description, summarizer, pipeline, transcripts_db>>

NextKeywordMatch == CalculateKeywordMatch

SpecKeywordMatch == InitKeywordMatch /\ [][NextKeywordMatch]_vars

(***************************************************************************)
(* calculate_ats_score from the points of its factors, one factor raised   *)
(* between two calls                                                       *)
(***************************************************************************)
\* the keyword-match scores drawn are the multiples of MatchStep up to 100
MatchStep == 7

MatchScores == {m \in 0..100 : m % MatchStep = 0} \cup {100}

\* the points each factor can have (sections: the number of sections present)
FactorValues ==
    [contact    |-> {0, 7, 8, 15},
     sections   |-> 0..6,
     skills     |-> {5, 10, 15, 20},
     education  |-> {0, 15},
     experience |-> {0, 5, 10, 15},
     word_count |-> {3, 7, 10}]

FactorNames == DOMAIN FactorValues

InitFactors ==
    /\ \E points \in [contact : FactorValues.contact, sections : FactorValues.sections,
                      skills : FactorValues.skills, education : FactorValues.education,
                      experience : FactorValues.experience,
                      word_count : FactorValues.word_count],
          match_score \in {NoneVal} \cup {Some(m) : m \in MatchScores} :
            trace = [points |-> points, match_score |-> match_score]
    /\ pc = "called"
    /\ ret = NoneVal
    /\ text = ""
    /\ job_description = NoneVal
    /\ summarizer = NoneVal
    /\ pipeline = Some("pipeline")
    /\ transcripts_db = <<>>

\* calculate_ats_score on a text with the factor points and keyword match of trace
ScoreFactors ==
    /\ pc = "called"
    /\ \E score \in FinalScore(Score6Of(trace.points), trace.match_score) :
          ret' = Some(score)
    /\ pc' = "returned"
    /\ UNCHANGED <<text, job_description, trace, summarizer, pipeline, transcripts_db>>

\* calculate_ats_score on a text that has more points for one factor and the
\* same points for the others and the same keyword match
ScoreRaisedFactor ==
    /\ pc = "returned"
    /\ \E f \in FactorNames :
       \E v \in {x \in FactorValues[f] : x > trace.points[f]} :
          /\ trace' = [trace EXCEPT !.points[f] = v]
          /\ \E score \in FinalScore(Score6Of(trace'.points), trace.match_score) :
                ret' = Some(score)
    /\ pc' = "raised"
    /\ UNCHANGED <<text, job_description, summarizer, pipeline, transcripts_db>>

NextFactors == ScoreFactors \/ ScoreRaisedFactor

SpecFactors == InitFactors /\ [][NextFactors]_vars

(***************************************************************************)
(* calculate_ats_score applied to a resume with a contact line, then to    *)
(* the same resume without that line                                       *)
(***************************************************************************)
\* lines holding an email address and a ten-digit phone number
ContactLines ==
    { "john@example.com 555-123-4567",
      "Email: john@example.com Phone: 5551234567",
      "john@example.com | 555.123.4567 | Python developer" }

\* the lines of AtsLines that hold no contact details
BodyLines == 3..Len(AtsLines)

\* the most lines of AtsLines in a resume body without filler words
MaxBodyLines == 2

\* the filler words that put a resume around the bounds of the word-count tiers
\* (300, 400, 800 and 1000 words) once a contact line is added
FillerCounts == {298, 398, 798, 998}

\* the rest of the resume: complete lines, each ended by a newline
ResumeBodies ==
    {JoinLines(AtsLines, chosen, 1) :
        chosen \in {c \in SUBSET BodyLines : Cardinality(c) <= MaxBodyLines} \cup {BodyLines}}
    \cup {Repeat("x ", n) : n \in FillerCounts}

InitContactLine ==
    /\ \E body \in ResumeBodies, line \in ContactLines :
          /\ trace = [contact_line |-> line, body |-> body]
          /\ text = line \o "\n" \o body
    /\ job_description \in JobDescriptions
    /\ pc = "called"
    /\ ret = <<>>
    /\ summarizer = NoneVal
    /\ pipeline = Some("pipeline")
    /\ transcripts_db = <<>>

\* the call calculate_ats_score(text, job_description) on the resume with its
\* contact line
ScoreWithContactLine ==
    /\ pc = "called"
    /\ \E score \in calculate_ats_score(text, job_description) : ret' = <<score>>
    /\ pc' = "returned"
    /\ UNCHANGED <<text, job_description, trace, summarizer, pipeline, transcripts_db>>

\* the call calculate_ats_score(text, job_description) on the same resume with
\* the contact line taken out
ScoreWithoutContactLine ==
    /\ pc = "returned"
    /\ text' = trace.body
    /\ \E score \in calculate_ats_score(text', job_description) :
          ret' = Append(ret, score)
    /\ pc' = "removed"
    /\ UNCHANGED <<job_description, trace, summarizer, pipeline, transcripts_db>>

NextContactLine == ScoreWithContactLine \/ ScoreWithoutContactLine

SpecContactLine == InitContactLine /\ [][NextContactLine]_vars

(***************************************************************************)
(* extract_experience_years applied to drawn lines of year ranges          *)
(***************************************************************************)
\* the most lines of a text of year ranges
MaxRangeLines == 3

RangeLines ==
    { "2019-2023", "Acme 2020 - Present", "2010-current now", "2023-2019",
      "2021-2021", "1999 -2005", "2018-Pre$ent", "no years here 2024" }

RangeTexts == Compose(RangeLines, MaxRangeLines)

InitExperience ==
    /\ text \in RangeTexts
    /\ job_description = NoneVal
    /\ pc = "called"
    /\ ret = NoneVal
    /\ trace = <<>>
    /\ summarizer = NoneVal
    /\ pipeline = Some("pipeline")
    /\ transcripts_db = <<>>

\* the call extract_experience_years(text)
ExtractExperienceYears ==
    /\ pc = "called"
    /\ ret' = Some(extract_experience_years(text))
    /\ trace' = <<"extract_experience_years">>
    /\ pc' = "returned"
    /\ UNCHANGED <<text, job_description, summarizer, pipeline, transcripts_db>>

NextExperience == ExtractExperienceYears

SpecExperience == InitExperience /\ [][NextExperience]_vars

(***************************************************************************)
(* get_improvement_suggestions_ats applied to drawn facts of a resume      *)
(***************************************************************************)
\* the calls made with the same arguments
MaxSuggestCalls == 2

\* texts with 0, 1, 2, 3 and 4 matches of the pattern of quantified numbers
QuantifiedTexts ==
    { "",
      "Saved $12% of 100 % and 3$ more",
      "Grew sales by 30% and managed a $50K budget",
      "Led 5+5+ people, cut cost 20%",
      "7+ years, 40% faster, $3M revenue, 2x growth and 15%" }

\* resumes that name 0, 7, 8 and 11 skills
SkillTexts ==
    { "",
      AtsLines[6],
      AtsLines[6] \o ", git",
      AtsLines[8] }

ContactValues ==
    [email : {NoneVal, Some("john@example.com")},
     phone : {NoneVal, Some("555-123-4567")},
     linkedin : {NoneVal},
     github : {NoneVal}]

SectionValues ==
    [contact_info : {TRUE}, summary : BOOLEAN, experience : {TRUE}, education : {FALSE},
     skills : BOOLEAN, projects : BOOLEAN]

InitSuggest ==
    /\ text \in QuantifiedTexts
    /\ \E sections \in SectionValues, skill_text \in SkillTexts, contact \in ContactValues :
          trace = [sections |-> sections, skills |-> extract_skills(skill_text),
                   contact |-> contact]
    /\ job_description = NoneVal
    /\ pc = 0
    /\ ret = <<>>
    /\ summarizer = NoneVal
    /\ pipeline = Some("pipeline")
    /\ transcripts_db = <<>>

\* a call get_improvement_suggestions_ats(text, sections, skills, contact);
\* ret holds the lists returned so far
GetImprovementSuggestionsAts ==
    /\ pc < MaxSuggestCalls
    /\ ret' = Append(ret, get_improvement_suggestions_ats(text, trace.sections, trace.skills,
                                                          trace.contact))
    /\ pc' = pc + 1
    /\ UNCHANGED <<text, job_description, trace, summarizer, pipeline, transcripts_db>>

NextSuggest == GetImprovementSuggestionsAts

SpecSuggest == InitSuggest /\ [][NextSuggest]_vars
(***************************************************************************)
(* calculate_ats_score applied to resumes whose word counts lie at and     *)
(* next to the edges of the word-count tiers                               *)
(***************************************************************************)
\* the word counts compared with in the tiers
TierEdges == {300, 400, 800, 1000}

\* how far from an edge the drawn word counts lie
EdgeMargin == 1

EdgeWordCounts ==
    {0} \cup {edge + d : edge \in TierEdges, d \in (0 - EdgeMargin)..EdgeMargin}

\* first lines of one word each
EdgePrefixes == {"", AtsLines[1] \o "\n", AtsLines[2] \o "\n", AtsLines[3] \o "\n"}

\* a resume of n words: a first line, then filler words
EdgeText(prefix, n) == prefix \o Repeat("x ", Max(n - WordCount(prefix), 0))

InitWordCount ==
    /\ \E prefix \in EdgePrefixes, n \in EdgeWordCounts : text = EdgeText(prefix, n)
    /\ job_description \in {NoneVal, Some("python java")}
    /\ pc = "called"
    /\ ret = NoneVal
    /\ trace = <<>>
    /\ summarizer = NoneVal
    /\ pipeline = Some("pipeline")
    /\ transcripts_db = <<>>

\* the call calculate_ats_score(text, job_description); trace holds the points
\* the call added for each factor
ScoreByWordCount ==
    /\ pc = "called"
    /\ \E points \in {FactorPoints(text)} :
          /\ trace' = points
          /\ \E score \in FinalScore(Score6Of(points),
                                     IF Truthy(job_description)
                                     THEN Some(calculate_keyword_match(text, job_description[1]))
                                     ELSE NoneVal) :
                ret' = Some(score)
    /\ pc' = "returned"
    /\ UNCHANGED <<text, job_description, summarizer, pipeline, transcripts_db>>

NextWordCount == ScoreByWordCount

SpecWordCount == InitWordCount /\ [][NextWordCount]_vars
(***************************************************************************)
(* Concurrent calls of summarize_text on threads of one process.  A thread *)
(* can be switched out between any two statements, so get_summarizer is    *)
(* taken in steps: the test of _summarizer, the assignment to it, and the  *)
(* return statement that reads it again.                                   *)
(*                                                                         *)
(* pc[t] is where thread t stands, ret[t] what its call returned, trace[t] *)
(* its locals: seen is the value of _summarizer its test read, load the    *)
(* outcome of its own load, wrote the value it assigned, summarizer the    *)
(* value get_summarizer returned to it.                                    *)
(***************************************************************************)
NumThreads == 2

Threads == 1..NumThreads

ThreadTexts == {Str(MeetingTranscript), Str("Hello team.")}

NoLocals == [seen |-> NoneVal, load |-> NoneVal, wrote |-> NoneVal, summarizer |-> NoneVal]

InitThreads ==
    /\ text \in ThreadTexts
    /\ pc = [t \in Threads |-> "called"]
    /\ ret = [t \in Threads |-> NoneVal]
    /\ trace = [t \in Threads |-> NoLocals]
    /\ job_description = NoneVal
    /\ summarizer = NoneVal
    /\ pipeline \in {NoneVal, Some("pipeline")}
    /\ transcripts_db = <<>>

\* summarize_text up to the call of get_summarizer: a short text is returned
ThreadCall(t) ==
    /\ pc[t] = "called"
    /\ IF too_short(text.value)
       THEN \E o \in summarize_text(text, summarizer, pipeline, "ok", CHOOSE i \in InvokeOutcomes : TRUE) :
               /\ ret' = [ret EXCEPT ![t] = Some(o.value)]
               /\ pc' = [pc EXCEPT ![t] = "done"]
       ELSE /\ pc' = [pc EXCEPT ![t] = "get_summarizer"]
            /\ ret' = ret
    /\ UNCHANGED <<text, job_description, trace, summarizer, pipeline, transcripts_db>>

\* if _summarizer is not None
ThreadCheck(t) ==
    /\ pc[t] = "get_summarizer"
    /\ trace' = [trace EXCEPT ![t].seen = summarizer]
    /\ pc' = [pc EXCEPT ![t] = IF summarizer # NoneVal THEN "return" ELSE "build"]
    /\ UNCHANGED <<text, job_description, ret, summarizer, pipeline, transcripts_db>>

\* _summarizer = pipeline(...), or the fallback lambda when pipeline is None or
\* the load raises
ThreadBuild(t) ==
    /\ pc[t] = "build"
    /\ \E load \in IF pipeline = NoneVal THEN {NoneVal} ELSE {Some(l) : l \in LoadOutcomes} :
          /\ summarizer' = IF load = Some("ok") THEN Some("model") ELSE Some("dummy")
          /\ trace' = [trace EXCEPT ![t].load = load, ![t].wrote = summarizer']
    /\ pc' = [pc EXCEPT ![t] = "return"]
    /\ UNCHANGED <<text, job_description, ret, pipeline, transcripts_db>>

\* return _summarizer
ThreadReturn(t) ==
    /\ pc[t] = "return"
    /\ trace' = [trace EXCEPT ![t].summarizer = summarizer]
    /\ pc' = [pc EXCEPT ![t] = "invoke"]
    /\ UNCHANGED <<text, job_description, ret, summarizer, pipeline, transcripts_db>>

\* the rest of summarize_text, with the summarizer get_summarizer returned
ThreadInvoke(t) ==
    /\ pc[t] = "invoke"
    /\ \E invoke \in InvokeOutcomes :
          \E o \in summarize_text(text, trace[t].summarizer, pipeline, "ok", invoke) :
              ret' = [ret EXCEPT ![t] = Some(o.value)]
    /\ pc' = [pc EXCEPT ![t] = "done"]
    /\ UNCHANGED <<text, job_description, trace, summarizer, pipeline, transcripts_db>>

NextThreads ==
    \E t \in Threads :
        ThreadCall(t) \/ ThreadCheck(t) \/ ThreadBuild(t) \/ ThreadReturn(t) \/ ThreadInvoke(t)

SpecThreads == InitThreads /\ [][NextThreads]_vars

(***************************************************************************)
(* app/routes.py: the handlers of the analysis endpoints over the          *)
(* in-memory store transcripts_db.  A step is one request handled from its *)
(* first statement to its response.  ret is the response, trace the        *)
(* request it answers and the core functions the handler called, pc the    *)
(* number of requests handled so far.                                      *)
(***************************************************************************)
\* (jsonify(body), status)
Response(status, body) == [status |-> status, body |-> body]

ErrorBody(message) == [error |-> message]

\* bool(v) of an optional Python value: None, '' and [] are false
TruthyValue(v) == v # NoneVal /\ Len(v[1].value) > 0

\* what request.get_json() gives: "none" when the request carries no JSON body
\* (the call raises, or returns None), "array" for a JSON value that is not an
\* object, "object" for an object, of which the entries the handlers read are
\* kept, each NoneVal when absent or a Python value with its type
JsonBody(kind, id, jd, forced, uploaded) ==
    [kind |-> kind, transcript_id |-> id, job_description |-> jd,
     force_type |-> forced, text |-> uploaded]

NoJsonBody == JsonBody("none", NoneVal, NoneVal, NoneVal, NoneVal)

ArrayBody == JsonBody("array", NoneVal, NoneVal, NoneVal, NoneVal)

\* str(e) of what data = request.get_json(); data.get(...) raises without a
\* JSON body: get_json() raised, or it returned None
NoJsonErrors ==
    { "400 Bad Request: Failed to decode JSON object",
      "415 Unsupported Media Type: Did not attempt to load JSON data",
      "'NoneType' object has no attribute 'get'" }

\* the most documents the store holds
MaxDocuments == 2

\* the most requests the server handles
MaxRequests == 3

\* datetime.utcnow().isoformat() while the n-th request is handled: the clock
\* has moved on between two requests
ServerTime(n) == "2025-03-14T09:00:0" \o Char(DigitChars, n + 1)

\* the request during which the clock showed time
TimeIndex(time) == CHOOSE n \in 0..9 : ServerTime(n) = time

DocumentId(k) == "doc-" \o Char(DigitChars, k + 1)

\* str(uuid.uuid4()): the ids the uploads get
DocumentIds == {DocumentId(k) : k \in 1..MaxDocuments}

\* str(uuid.uuid4()) of an upload, none when the store is full: the k-th
\* document stored is given the k-th id
NextIds(db) ==
    IF Cardinality(DOMAIN db) < MaxDocuments THEN {DocumentId(Cardinality(DOMAIN db) + 1)} ELSE {}

\* the transcript_id entries of the requests: absent, empty, the id of an
\* upload, an id no upload gets, and a JSON array
RequestIds ==
    {NoneVal, Some(Str("")), Some(Str("doc-0")), Some(List(<<"doc-1">>))}
    \cup {Some(Str(id)) : id \in DocumentIds}

\* the ids in the URL of /result/<id> and /export_pdf/<id>
UrlIds == DocumentIds \cup {"doc-0"}

ResumeDocument == "John Doe\njohn@example.com 555-123-4567\nExperience 2019-2023\nSkills: Python"

TranscriptDocument == "Meeting Notes\nAgenda: budget\nWe will review the budget today."

\* a transcript of more than 30 words, which summarize_text hands to the model
LongTranscript ==
    "Project Sync\nAttendees: Ann, Bob\nWe reviewed the quarterly budget and the hiring plan "
    \o "for the next two quarters in detail. Ann will send the revised budget to finance by "
    \o "Friday. We decided to postpone the product launch until the marketing material is ready."

\* the text entries of the upload requests
UploadedTexts ==
    {Str(ResumeDocument), Str(TranscriptDocument), Str(LongTranscript), List(<<"a", "b">>)}

\* the texts of the stored documents that are strings
StoredStrings == {u.value : u \in {v \in UploadedTexts : v.type = "str"}}

\* The core functions read nothing but their arguments, so what they return for
\* the texts a document can hold is computed once: the handlers look up
\* extract_action_items(text), extract_key_decisions(text),
\* suggest_improvements(text) and detect_document_type(text) here.
ActionItemsOf == [t \in StoredStrings |-> extract_action_items(t)]

KeyDecisionsOf == [t \in StoredStrings |-> extract_key_decisions(t)]

ImprovementsOf == [t \in StoredStrings |-> suggest_improvements(t)]

DocumentTypeOf == [t \in StoredStrings |-> detect_document_type(t)]

\* transcript_data of upload_text; the keys an analysis adds later are NoneVal
NewDocument(id, t, now) ==
    [id |-> id, user_id |-> "demo_user", title |-> "Untitled Transcript",
     text |-> t, text_length |-> Len(t.value), created_at |-> now,
     status |-> "uploaded", summary |-> NoneVal, improvements |-> NoneVal,
     action_items |-> NoneVal, key_decisions |-> NoneVal,
     document_type |-> NoneVal, ats_score |-> NoneVal, ats_analysis |-> NoneVal,
     analyzed_at |-> NoneVal]

\* the store as one dict entry shared by all ids: every key holds document
Store_shared(db, id, document) == [k \in DOMAIN db \cup {id} |-> document]

\* transcripts_db[id] = document
Store(db, id, document) ==
    [k \in DOMAIN db \cup {id} |-> IF k = id THEN document ELSE db[k]]

\* the handler's record of its request
Handled(endpoint, request, calls) == [endpoint |-> endpoint, request |-> request, calls |-> calls]

\* re.search, re.finditer and str methods on a text that is not a string
TextTypeError == "expected string or bytes-like object, got 'list'"

\* the responses that end a handler before it reads the document, none when
\* it goes on: data.get raises, the id is missing or empty, the id cannot be
\* hashed, the id is not in transcripts_db
\* the document looked up without the membership test: an id that is not in
\* transcripts_db raises KeyError, which the handler answers with 500
Rejections_key_error(body, db, not_found) ==
    IF body.kind = "none" THEN {Response(500, ErrorBody(m)) : m \in NoJsonErrors}
    ELSE IF body.kind = "array"
    THEN {Response(500, ErrorBody("'list' object has no attribute 'get'"))}
    ELSE IF ~TruthyValue(body.transcript_id)
    THEN {Response(400, ErrorBody("transcript_id is required"))}
    ELSE IF body.transcript_id[1].type # "str"
    THEN {Response(500, ErrorBody("unhashable type: 'list'"))}
    ELSE IF body.transcript_id[1].value \notin DOMAIN db
    THEN {Response(500, ErrorBody("'" \o body.transcript_id[1].value \o "'"))}
    ELSE {}

Rejections(body, db, not_found) ==
    IF body.kind = "none" THEN {Response(500, ErrorBody(m)) : m \in NoJsonErrors}
    ELSE IF body.kind = "array"
    THEN {Response(500, ErrorBody("'list' object has no attribute 'get'"))}
    ELSE IF ~TruthyValue(body.transcript_id)
    THEN {Response(400, ErrorBody("transcript_id is required"))}
    ELSE IF body.transcript_id[1].type # "str"
    THEN {Response(500, ErrorBody("unhashable type: 'list'"))}
    ELSE IF body.transcript_id[1].value \notin DOMAIN db
    THEN {Response(404, ErrorBody(not_found))}
    ELSE {}

\* a handler that ends at one of the responses of Rejections
Rejected(endpoint, body, not_found) ==
    /\ ret' \in Rejections(body, transcripts_db, not_found)
    /\ trace' = Handled(endpoint, body, <<>>)
    /\ UNCHANGED <<summarizer, transcripts_db>>

\* the possible outcomes of analyze_resume(text, job_description) of
\* ats_service.py; the entries 'skills', 'suggestions' and their counts of the
\* returned dict are left out
analyze_resume(t, jd, now) ==
    IF t.type # "str"
    THEN {[raised |-> TRUE, value |-> [exception |-> TextTypeError]]}
    ELSE {[raised |-> FALSE,
           value |-> [document_type |-> "resume",
                      ats_score |-> score,
                      contact_info |-> extract_contact_info(t.value),
                      education |-> extract_education(t.value),
                      experience_years |-> extract_experience_years(t.value),
                      sections_present |-> check_resume_sections(t.value),
                      keyword_match_score |->
                          IF Truthy(jd) THEN Some(calculate_keyword_match(t.value, jd[1]))
                          ELSE NoneVal,
                      word_count |-> WordCount(t.value),
                      analyzed_at |-> now]] :
             score \in calculate_ats_score(t.value, jd)}

\* the job_description entries of the requests
RequestJobDescriptions == {NoneVal, Some("Looking for a Python developer")}

\* analyze_resume reads the clock last: its outcomes for the stored texts and
\* the job descriptions of the requests, computed once with the first time
ResumeAnalysisOf ==
    [t \in UploadedTexts, jd \in RequestJobDescriptions |-> analyze_resume(t, jd, ServerTime(0))]

\* the outcomes of analyze_resume(t, jd) at the time now
AnalyzeResumeAt(t, jd, now) ==
    {IF a.raised THEN a ELSE [a EXCEPT !.value.analyzed_at = now] : a \in ResumeAnalysisOf[t, jd]}

InitRoutes ==
    /\ pc = 0
    /\ text = ""
    /\ job_description = NoneVal
    /\ ret = NoneVal
    /\ trace = <<>>
    /\ summarizer = NoneVal
    /\ pipeline = Some("pipeline")
    /\ transcripts_db = <<>>

\* POST /upload_text
upload_text ==
    /\ pc < MaxRequests
    /\ \E body \in {NoJsonBody, ArrayBody}
                \cup {JsonBody("object", NoneVal, NoneVal, NoneVal, t) :
                         t \in {NoneVal} \cup {Some(u) : u \in UploadedTexts}} :
        /\ trace' = Handled("upload_text", body, <<>>)
        /\ IF body.kind = "none"
           THEN /\ ret' \in {Response(400, ErrorBody("Text field is required"))}
                            \cup {Response(500, ErrorBody(m)) :
                                     m \in NoJsonErrors \ {"'NoneType' object has no attribute 'get'"}}
                /\ UNCHANGED transcripts_db
           ELSE IF body.kind = "array"
           THEN /\ ret' \in {Response(400, ErrorBody("Text field is required")),
                              Response(500, ErrorBody("list indices must be integers or slices, not str"))}
                /\ UNCHANGED transcripts_db
           ELSE IF body.text = NoneVal
           THEN /\ ret' = Response(400, ErrorBody("Text field is required"))
                /\ UNCHANGED transcripts_db
           ELSE \E id \in NextIds(transcripts_db), now \in {ServerTime(pc)} :
                   /\ transcripts_db' = Store(transcripts_db, id, NewDocument(id, body.text[1], now))
                   /\ ret' = Response(201, [message |-> "Text uploaded successfully",
                                            transcript_id |-> id,
                                            data |-> [id |-> id,
                                                      title |-> "Untitled Transcript",
                                                      text_length |-> Len(body.text[1].value),
                                                      created_at |-> now]])
        /\ pc' = pc + 1
        /\ UNCHANGED <<text, job_description, summarizer, pipeline>>

\* the bodies of the requests that carry nothing but a transcript_id
IdBodies ==
    {NoJsonBody, ArrayBody}
    \cup {JsonBody("object", id, NoneVal, NoneVal, NoneVal) : id \in RequestIds}

\* the force_type entries of the requests
ForceTypes == {NoneVal, Some(Str("")), Some(Str("resume")), Some(Str("transcript")), Some(Str("cv"))}

\* the document a request that was not rejected names
Named(body) == transcripts_db[body.transcript_id[1].value]

\* summarize_text(t) goes on to get_summarizer()
Summarizes(t) == t.type = "str" /\ ~too_short(t.value)

\* the outcomes of the load that summarize_text(t) can meet: one that stands
\* for 'no load' when the call does not load the model
LoadsTried(t, current, available) ==
    IF Summarizes(t) /\ current = NoneVal /\ available # NoneVal THEN LoadOutcomes ELSE {"ok"}

NotInvoked == [kind |-> "none", summary_text |-> "", message |-> ""]

\* the outcomes of the model's invocation that summarize_text(t) can meet
InvokesTried(t, current, available, load) ==
    IF Summarizes(t) /\ get_summarizer(current, available, load) = Some("model")
    THEN InvokeOutcomes
    ELSE {NotInvoked}

\* the steps of analyze_text after the summary, for the stored texts
AnalysisStepsOf == [t \in UploadedTexts |-> AnalysisSteps(t)]

\* the values of the global _summarizer
SummarizerValues == {NoneVal, Some("model"), Some("dummy")}

\* the outcomes of summarize_text for the texts a document can hold, for each
\* value of _summarizer and of pipeline and each outcome of the load and of
\* the invocation, computed once
SummarizeTextOf ==
    [t \in UploadedTexts, current \in SummarizerValues, available \in {NoneVal, Some("pipeline")},
     load \in LoadOutcomes, invoke \in InvokeOutcomes \cup {NotInvoked} |->
        summarize_text(t, current, available, load, invoke)]

\* the same for analyze_text, which reads the clock last: computed with the
\* first time
AnalyzeTextOf ==
    [t \in UploadedTexts, current \in SummarizerValues, available \in {NoneVal, Some("pipeline")},
     load \in LoadOutcomes, invoke \in InvokeOutcomes \cup {NotInvoked} |->
        UNION {analyze_text(t, steps, current, available, load, invoke, ServerTime(0)) :
                  steps \in AnalysisStepsOf[t]}]

\* the outcomes of analyze_text(t) at the time now
AnalyzeTextAt(t, current, available, load, invoke, now) ==
    {IF o.raised THEN o ELSE [o EXCEPT !.value.analyzed_at = now] :
        o \in AnalyzeTextOf[t, current, available, load, invoke]}

\* POST /summarize
summarize ==
    /\ pc < MaxRequests
    /\ \E body \in IdBodies :
        /\ IF Rejections(body, transcripts_db, "Transcript not found") # {}
           THEN Rejected("summarize", body, "Transcript not found")
           ELSE \E items \in {IF Named(body).text.type # "str" THEN <<>>
                              ELSE << ActionItemsOf[Named(body).text.value],
                                      KeyDecisionsOf[Named(body).text.value] >>} :
                \E load \in LoadsTried(Named(body).text, summarizer, pipeline),
                   now \in {ServerTime(pc)} :
                \E invoke \in InvokesTried(Named(body).text, summarizer, pipeline, load) :
                \E s \in SummarizeTextOf[Named(body).text, summarizer, pipeline, load, invoke] :
                   /\ summarizer' = s.summarizer
                   /\ IF Named(body).text.type # "str"
                      THEN /\ ret' = Response(500, ErrorBody(TextTypeError))
                           /\ trace' = Handled("summarize", body,
                                               <<"summarize_text", "extract_action_items">>)
                           /\ UNCHANGED transcripts_db
                      ELSE /\ transcripts_db' =
                                Store(transcripts_db, Named(body).id,
                                      [Named(body) EXCEPT
                                          !.summary = s.value.summary,
                                          !.action_items = Some(items[1]),
                                          !.key_decisions = Some(items[2]),
                                          !.status = "analyzed",
                                          !.analyzed_at = Some(now)])
                           /\ ret' = Response(200,
                                  [message |-> "Summarization completed successfully",
                                   transcript_id |-> Named(body).id,
                                   results |-> [summary |-> s.value,
                                                action_items |-> items[1],
                                                key_decisions |-> items[2]]])
                           /\ trace' = Handled("summarize", body,
                                               <<"summarize_text", "extract_action_items",
                                                 "extract_key_decisions">>)
        /\ pc' = pc + 1
        /\ UNCHANGED <<text, job_description, pipeline>>

\* POST /improve
improve ==
    /\ pc < MaxRequests
    /\ \E body \in IdBodies :
        /\ IF Rejections(body, transcripts_db, "Transcript not found") # {}
           THEN Rejected("improve", body, "Transcript not found")
           ELSE /\ trace' = Handled("improve", body, <<"suggest_improvements">>)
                /\ UNCHANGED summarizer
                /\ IF Named(body).text.type # "str"
                   THEN /\ ret' = Response(500, ErrorBody(TextTypeError))
                        /\ UNCHANGED transcripts_db
                   ELSE \E improvements \in ImprovementsOf[Named(body).text.value] :
                           /\ transcripts_db' =
                                Store(transcripts_db, Named(body).id,
                                      [Named(body) EXCEPT !.improvements = Some(improvements)])
                           /\ ret' = Response(200, [message |-> "Analysis completed successfully",
                                                    transcript_id |-> Named(body).id,
                                                    improvements |-> improvements])
        /\ pc' = pc + 1
        /\ UNCHANGED <<text, job_description, pipeline>>

\* analysis = analyze_text(text) and what the handlers analyze and smart_analyze
\* do with it; document_type is Some('transcript') when the handler stores the
\* type and NoneVal when it does not
TranscriptAnalysis(endpoint, body, calls, document_type, message) ==
    \E load \in LoadsTried(Named(body).text, summarizer, pipeline), now \in {ServerTime(pc)} :
    \E invoke \in InvokesTried(Named(body).text, summarizer, pipeline, load) :
    \E o \in AnalyzeTextAt(Named(body).text, summarizer, pipeline, load, invoke, now) :
        /\ summarizer' = o.summarizer
        /\ trace' = Handled(endpoint, body, calls \o <<"analyze_text">>)
        /\ IF o.raised
           THEN /\ ret' = Response(500, ErrorBody(o.value.exception))
                /\ UNCHANGED transcripts_db
           ELSE /\ transcripts_db' =
                     Store(transcripts_db, Named(body).id,
                           [Named(body) EXCEPT
                               !.document_type = IF document_type = NoneVal THEN @ ELSE document_type,
                               !.summary = o.value.summary.summary,
                               !.action_items = Some(o.value.action_items),
                               !.key_decisions = Some(o.value.key_decisions),
                               !.improvements = Some(o.value.improvements),
                               !.status = "analyzed",
                               !.analyzed_at = Some(o.value.analyzed_at)])
                /\ ret' = Response(200, [message |-> message,
                                         document_id |-> Named(body).id,
                                         document_type |-> document_type,
                                         analysis |-> o.value])

\* analysis = analyze_resume(text, job_description) and what the handlers
\* smart_analyze and analyze_resume_endpoint do with it; document_type is
\* Some('resume') when the response names the type
ResumeAnalysis(endpoint, body, calls, document_type, message) ==
    \E now \in {ServerTime(pc)} :
    \E a \in AnalyzeResumeAt(Named(body).text, body.job_description, now) :
        /\ UNCHANGED summarizer
        /\ trace' = Handled(endpoint, body, calls \o <<"analyze_resume">>)
        /\ IF a.raised
           THEN /\ ret' = Response(500, ErrorBody(a.value.exception))
                /\ UNCHANGED transcripts_db
           ELSE /\ transcripts_db' =
                     Store(transcripts_db, Named(body).id,
                           [Named(body) EXCEPT
                               !.document_type = Some("resume"),
                               !.ats_score = Some(a.value.ats_score),
                               !.ats_analysis = Some(a.value),
                               !.status = "analyzed",
                               !.analyzed_at = Some(a.value.analyzed_at)])
                /\ ret' = Response(200, [message |-> message,
                                         document_id |-> Named(body).id,
                                         document_type |-> document_type,
                                         analysis |-> a.value])

\* POST /analyze
analyze ==
    /\ pc < MaxRequests
    /\ \E body \in IdBodies :
        /\ IF Rejections(body, transcripts_db, "Transcript not found") # {}
           THEN Rejected("analyze", body, "Transcript not found")
           ELSE TranscriptAnalysis("analyze", body, <<>>, NoneVal, "Complete analysis finished")
        /\ pc' = pc + 1
        /\ UNCHANGED <<text, job_description, pipeline>>

\* doc_type with the classifier never consulted
doc_type_forced_only(force_type, t) ==
    IF TruthyValue(force_type) THEN force_type[1].value ELSE "transcript"

\* doc_type of smart_analyze: the forced type when there is one
doc_type(force_type, t) ==
    IF TruthyValue(force_type) THEN force_type[1].value ELSE DocumentTypeOf[t.value]

\* POST /smart_analyze
smart_analyze ==
    /\ pc < MaxRequests
    /\ \E body \in IdBodies
                \cup {JsonBody("object", Some(Str(id)), jd, force_type, NoneVal) :
                         id \in UrlIds, jd \in RequestJobDescriptions,
                         force_type \in ForceTypes} :
        /\ IF Rejections(body, transcripts_db, "Document not found") # {}
           THEN Rejected("smart_analyze", body, "Document not found")
           ELSE IF ~TruthyValue(body.force_type) /\ Named(body).text.type # "str"
           THEN /\ ret' = Response(500, ErrorBody("'list' object has no attribute 'lower'"))
                /\ trace' = Handled("smart_analyze", body, <<"detect_document_type">>)
                /\ UNCHANGED <<summarizer, transcripts_db>>
           ELSE IF doc_type(body.force_type, Named(body).text) = "resume"
           THEN ResumeAnalysis("smart_analyze", body,
                               IF TruthyValue(body.force_type) THEN <<>>
                               ELSE <<"detect_document_type">>,
                               Some("resume"), "Resume analysis completed")
           ELSE TranscriptAnalysis("smart_analyze", body,
                                   IF TruthyValue(body.force_type) THEN <<>>
                                   ELSE <<"detect_document_type">>,
                                   Some("transcript"), "Transcript analysis completed")
        /\ pc' = pc + 1
        /\ UNCHANGED <<text, job_description, pipeline>>

\* POST /analyze_resume
analyze_resume_endpoint ==
    /\ pc < MaxRequests
    /\ \E body \in IdBodies
                \cup {JsonBody("object", Some(Str(id)), jd, NoneVal, NoneVal) :
                         id \in UrlIds, jd \in RequestJobDescriptions} :
        /\ IF Rejections(body, transcripts_db, "Document not found") # {}
           THEN Rejected("analyze_resume", body, "Document not found")
           ELSE ResumeAnalysis("analyze_resume", body, <<>>, NoneVal,
                               "Resume ATS analysis completed")
        /\ pc' = pc + 1
        /\ UNCHANGED <<text, job_description, pipeline>>

\* the request of a GET with the id in its URL
UrlRequest(id) == JsonBody("url", Some(Str(id)), NoneVal, NoneVal, NoneVal)

\* GET /result/<transcript_id>
get_result ==
    /\ pc < MaxRequests
    /\ \E id \in UrlIds :
        /\ trace' = Handled("result", UrlRequest(id), <<>>)
        /\ ret' = IF id \notin DOMAIN transcripts_db
                  THEN Response(404, ErrorBody("Transcript not found"))
                  ELSE Response(200, [data |-> transcripts_db[id]])
        /\ pc' = pc + 1
        /\ UNCHANGED <<text, job_description, summarizer, pipeline, transcripts_db>>

\* what create_resume_pdf, create_transcript_pdf and send_file can do
PdfOutcomes == {"sent", "raises"}

\* the entry 'summary' of analysis_data for a transcript: the ratio is
\* round(len(text.split()) / max(len(summary.split()), 1), 2) in hundredths when
\* the stored summary is not empty, and 0 when it is None or ''
SummaryBlock(document) ==
    {[summary |-> document.summary,
      original_length |-> WordCount(document.text.value),
      summary_length |-> IF Truthy(document.summary) THEN WordCount(document.summary[1]) ELSE 0,
      compression_ratio |-> ratio] :
        ratio \in IF Truthy(document.summary)
                  THEN Round2(WordCount(document.text.value),
                              Max(WordCount(document.summary[1]), 1))
                  ELSE {0}}

\* analysis_data of export_pdf for a transcript
TranscriptReport(document) ==
    {[analysis |-> [summary |-> block,
                    action_items |-> document.action_items,
                    key_decisions |-> document.key_decisions,
                    improvements |-> document.improvements]] : block \in SummaryBlock(document)}

\* analysis_data of export_pdf for a resume
ResumeReport(document) == [analysis |-> document.ats_analysis]

\* the record of an export: the request, the PDF builder called and the
\* analysis_data handed to it
Exported(request, calls, analysis_data) ==
    [endpoint |-> "export_pdf", request |-> request, calls |-> calls,
     analysis_data |-> analysis_data]

\* datetime.utcnow().strftime('%Y%m%d_%H%M%S') while the n-th request is handled
FileStamp(n) == "20250314_09000" \o Char(DigitChars, n + 1)

\* send_file(..., download_name=f"{doc_type}_analysis_{timestamp}.pdf"), or the
\* answer to an exception of the PDF builder
PdfResponse(pdf, document_type, timestamp) ==
    IF pdf = "sent"
    THEN Response(200, [download_name |-> document_type \o "_analysis_" \o timestamp \o ".pdf"])
    ELSE Response(500, ErrorBody("cannot write the PDF file"))

\* GET /export_pdf/<transcript_id>
export_pdf ==
    /\ pc < MaxRequests
    /\ \E id \in UrlIds :
        /\ IF id \notin DOMAIN transcripts_db
           THEN /\ ret' = Response(404, ErrorBody("Document not found"))
                /\ trace' = Handled("export_pdf", UrlRequest(id), <<>>)
           ELSE IF transcripts_db[id].document_type = Some("resume")
           THEN \E pdf \in PdfOutcomes :
                   /\ ret' = PdfResponse(pdf, "resume", FileStamp(pc))
                   /\ trace' = Exported(UrlRequest(id), <<"create_resume_pdf">>,
                                        ResumeReport(transcripts_db[id]))
           ELSE IF transcripts_db[id].text.type # "str"
           THEN /\ ret' = Response(500, ErrorBody("'list' object has no attribute 'split'"))
                /\ trace' = Handled("export_pdf", UrlRequest(id), <<>>)
           ELSE \E pdf \in PdfOutcomes, report \in TranscriptReport(transcripts_db[id]) :
                   /\ ret' = PdfResponse(pdf,
                                          IF transcripts_db[id].document_type = NoneVal
                                          THEN "transcript"
                                          ELSE transcripts_db[id].document_type[1],
                                          FileStamp(pc))
                   /\ trace' = Exported(UrlRequest(id), <<"create_transcript_pdf">>, report)
        /\ pc' = pc + 1
        /\ UNCHANGED <<text, job_description, summarizer, pipeline, transcripts_db>>

\* the JSON body of a search request: the entries 'query' and 'user_id'
SearchBody(kind, query, user_id) == [kind |-> kind, query |-> query, user_id |-> user_id]

\* the query entries of the search requests: absent, a word of a stored text in
\* upper case, a word of the titles, and a JSON array
SearchQueries == {NoneVal, Some(Str("BUDGET")), Some(Str("untitled")), Some(List(<<"budget">>))}

\* the user_id of the search requests and of the query string of /transcripts
RequestUserIds == {NoneVal, Some("demo_user"), Some("other_user")}

\* transcripts_db.values(): the documents in the order of their upload, that
\* is of their created_at
RECURSIVE InUploadOrder(_)
FirstThenRest(first, documents) == <<first>> \o InUploadOrder(documents \ {first})

InUploadOrder(documents) ==
    IF documents = {} THEN <<>>
    ELSE FirstThenRest(Only({d \in documents :
                               \A e \in documents :
                                   TimeIndex(d.created_at) <= TimeIndex(e.created_at)}),
                       documents)

\* the documents the loops of search and list_transcripts do not skip
OfUser(db, user_id) ==
    InUploadOrder({db[id] : id \in {k \in DOMAIN db : ~Truthy(user_id) \/ db[k].user_id = user_id[1]}})

\* query in transcript['title'].lower()
TitleMatches(document, query) == Contains(Lower(document.title), query)

\* result_item of search; the preview is the text itself when it is not longer
\* than 200
SearchItem(document) ==
    [id |-> document.id, title |-> document.title,
     text_preview |-> IF Len(document.text.value) > 200
                      THEN Str(SubSeq(document.text.value, 1, 200) \o "...")
                      ELSE document.text,
     created_at |-> document.created_at, status |-> document.status]

\* POST /search
search ==
    /\ pc < MaxRequests
    /\ \E body \in {SearchBody("none", NoneVal, NoneVal), SearchBody("array", NoneVal, NoneVal)}
                \cup {SearchBody("object", query, user_id) :
                         query \in SearchQueries, user_id \in RequestUserIds} :
        /\ trace' = Handled("search", body, <<>>)
        /\ IF body.kind = "none"
           THEN ret' \in {Response(500, ErrorBody(m)) : m \in NoJsonErrors}
           ELSE IF body.kind = "array"
           THEN ret' = Response(500, ErrorBody("'list' object has no attribute 'get'"))
           ELSE IF body.query = NoneVal
           THEN ret' = Response(400, ErrorBody("Query is required"))
           ELSE IF body.query[1].type # "str"
           THEN ret' = Response(500, ErrorBody("'list' object has no attribute 'lower'"))
           ELSE \E query \in {Lower(body.query[1].value)},
                   documents \in {OfUser(transcripts_db, body.user_id)} :
                   IF \E k \in 1..Len(documents) :
                         ~TitleMatches(documents[k], query) /\ documents[k].text.type # "str"
                   THEN ret' = Response(500, ErrorBody("'list' object has no attribute 'lower'"))
                   ELSE \E results \in
                           {SelectSeq(documents,
                                      LAMBDA d : \/ TitleMatches(d, query)
                                                 \/ Contains(Lower(d.text.value), query))} :
                           ret' = Response(200,
                                     [query |-> query,
                                      results |-> [k \in 1..Len(results) |-> SearchItem(results[k])],
                                      count |-> Len(results)])
        /\ pc' = pc + 1
        /\ UNCHANGED <<text, job_description, summarizer, pipeline, transcripts_db>>

\* result_item of list_transcripts
ListItem(document) ==
    [id |-> document.id, title |-> document.title, text_length |-> document.text_length,
     created_at |-> document.created_at, status |-> document.status,
     has_summary |-> document.summary # NoneVal]

\* results.sort(key=lambda x: x['created_at'], reverse=True) of items that are
\* in the order of their created_at
NewestFirst(items) == [k \in 1..Len(items) |-> items[Len(items) + 1 - k]]

\* GET /transcripts
list_transcripts ==
    /\ pc < MaxRequests
    /\ \E user_id \in RequestUserIds :
       \E documents \in {OfUser(transcripts_db, user_id)} :
        /\ trace' = Handled("transcripts", [kind |-> "args", user_id |-> user_id], <<>>)
        /\ ret' = Response(200,
                     [transcripts |-> NewestFirst([k \in 1..Len(documents) |-> ListItem(documents[k])]),
                      count |-> Len(documents)])
    /\ pc' = pc + 1
    /\ UNCHANGED <<text, job_description, summarizer, pipeline, transcripts_db>>

NextRoutes ==
    \/ upload_text
    \/ summarize
    \/ improve
    \/ analyze
    \/ smart_analyze
    \/ analyze_resume_endpoint
    \/ get_result
    \/ export_pdf
    \/ search
    \/ list_transcripts

SpecRoutes == InitRoutes /\ [][NextRoutes]_vars

(***************************************************************************)
(* Claims about detect_document_type                                       *)
(***************************************************************************)
\* the resume score as the claims describe it: the number of resume-vocabulary
\* keywords present in the lower-cased text, plus 2 for an email or a phone
ResumeScoreOf(t) ==
    LET lowered == Lower(t)
    IN  Cardinality({k \in ToSet(resume_keywords) : Contains(lowered, k)})
        + (IF EmailStarts(t) # {} \/ PhoneStarts(t) # {} THEN 2 ELSE 0)

TranscriptScoreOf(t) ==
    LET lowered == Lower(t)
    IN  Cardinality({k \in ToSet(transcript_keywords) : Contains(lowered, k)})

C3_ResumeOnlyWhenStrictlyGreater ==
    \A i \in 1..Len(ret) :
        /\ ret[i] = "resume" <=> ResumeScoreOf(text) > TranscriptScoreOf(text)
        /\ ResumeScoreOf(text) = TranscriptScoreOf(text) => ret[i] = "transcript"

\* a tie of 2 to 2 (an email against 'meeting' and 'meeting notes') was labelled
C3_Witness ==
    /\ Len(ret) >= 1
    /\ text = "Mail john@example.com\nMeeting Notes"
    /\ ResumeScoreOf(text) = 2 /\ TranscriptScoreOf(text) = 2
    /\ ret[1] = "transcript"

(***************************************************************************)
(* Claims about calculate_ats_score                                        *)
(***************************************************************************)
\* C1: for every resume text and every job description (absent, empty or a
\* string), calculate_ats_score returns an integer from 0 to 100.
C1_AtsScoreInRange ==
    pc = "returned" => ret[1] \in 0..100

\* the resume with every line and 450 filler words scored 100 without a job
\* description
C1_Witness ==
    /\ pc = "returned"
    /\ job_description = NoneVal
    /\ WordCount(text) > 400
    /\ ret = Some(100)

(***************************************************************************)
(* Claims about extract_action_items and extract_key_decisions             *)
(***************************************************************************)
\* no two entries of a list are equal when compared in lower case
NoCaseDuplicates(items) ==
    \A i, j \in 1..Len(items) : i # j => Lower(items[i]) # Lower(items[j])

\* C4: extract_action_items returns at most 10 entries, no two of them equal
\* ignoring case; each entry is the first of the candidates equal to it ignoring
\* case, in its own casing, where the candidates are the items found under the
\* headers followed by the verb-trigger matches.
C4_ActionItemsCappedUniqueFirstKept ==
    (pc = "returned" /\ trace = <<"extract_action_items">>) =>
        LET header     == HeaderItems(text, 1) \o HeaderItems(text, 2)
                          \o HeaderItems(text, 3) \o HeaderItems(text, 4)
            candidates == ActionCandidates(text)
        IN  /\ Len(ret) <= 10
            /\ NoCaseDuplicates(ret)
            /\ SubSeq(candidates, 1, Len(header)) = header
            /\ \A i \in 1..Len(ret) :
                  \E k \in 1..Len(candidates) :
                      /\ candidates[k] = ret[i]
                      /\ \A j \in 1..(k - 1) : Lower(candidates[j]) # Lower(ret[i])

\* the item under the header was kept and the verb-trigger match that differs
\* from it only in case was dropped
C4_Witness ==
    /\ pc = "returned" /\ trace = <<"extract_action_items">>
    /\ text = "Action Items:\n- Send the report to Bob\n- send the report to bob"
    /\ ret = <<"- Send the report to Bob", "send the report to bob">>
    /\ ActionCandidates(text)
         = <<"- Send the report to Bob", "send the report to bob", "Send the report to Bob">>

\* C5 as claimed: extract_key_decisions returns at most 5 entries and no two
\* of them are equal ignoring case.
C5_DecisionsCappedNoCaseDuplicates ==
    (pc = "returned" /\ trace = <<"extract_key_decisions">>) =>
        Len(ret) <= 5 /\ NoCaseDuplicates(ret)

(***************************************************************************)
(* Claims about summarize_text                                             *)
(***************************************************************************)
\* C6: for a string of fewer than 30 words summarize_text returns the text
\* itself as the summary, original_length equal to summary_length, no error
\* field, and neither loads nor invokes the summarizer: _summarizer is what it
\* was before the call and the call went through no backend event.
C6_ShortTextReturnedUnchanged ==
    [][(/\ pc = "called" /\ pc' # "called"
        /\ trace'[1] = "summarize_text"
        /\ text.type = "str"
        /\ WordCount(text.value) < 30)
       => (/\ pc' = "returned"
           /\ ret'.summary = Some(text.value)
           /\ ret'.original_length = ret'.summary_length
           /\ "error" \notin DOMAIN ret'
           /\ summarizer' = summarizer
           /\ trace' = <<"summarize_text">>)]_vars

\* a text of 29 words came back as its own summary, the model never loaded
C6_Witness ==
    /\ pc = "returned"
    /\ trace = <<"summarize_text">>
    /\ text = Str(Repeat("w ", 29))
    /\ ret.summary = Some(Repeat("w ", 29))
    /\ ret.original_length = 29 /\ ret.summary_length = 29
    /\ summarizer = NoneVal
    /\ pipeline = Some("pipeline")

\* the events of a call that make it fail
FailureEvents == {"invoke_raised", "invoke_malformed"}

\* C7: a call of summarize_text on a string returns, whatever the loading and
\* the invocation of the model do; the result has a summary field, a call whose
\* invocation raised or gave a malformed result returns a null summary with an
\* error message, and a null summary never comes without an error message.
C7_SummarizeNeverRaises ==
    (pc \in {"returned", "raised"} /\ trace[1] = "summarize_text" /\ text.type = "str") =>
        /\ pc = "returned"
        /\ "summary" \in DOMAIN ret
        /\ (ToSet(trace) \cap FailureEvents # {}
               => ret.summary = NoneVal /\ "error" \in DOMAIN ret)
        /\ (ret.summary = NoneVal <=> "error" \in DOMAIN ret)

\* the loaded model raised when it was invoked and the call returned the failure
C7_Witness ==
    /\ pc = "returned"
    /\ trace = <<"summarize_text", "get_summarizer", "load_ok", "invoke_raised">>
    /\ ret = [summary |-> NoneVal, error |-> "CUDA out of memory",
              note |-> "Summarization failed"]

\* the capability was unavailable or raised in the call that just returned
Degraded == summarizer = Some("dummy") \/ "invoke_raised" \in ToSet(trace)

C9_AnalyzeBestEffort ==
    (pc \in {"returned", "raised"} /\ trace[1] = "analyze_text") =>
        /\ pc = "returned"
        /\ {"summary", "action_items", "key_decisions", "improvements"} \subseteq DOMAIN ret

\* the text has no sentence: nothing but white space and '.', '!', '?'
NoSentence(t) == \A i \in 1..Len(t) : Char(t, i) \in SpaceSet \cup {".", "!", "?"}

\* C10: calculate_simple_readability returns exactly 50 for a text without a
\* sentence, that is the empty text and every text made only of white space and
\* of the characters '.', '!' and '?'.
C10_NoSentenceGivesFifty ==
    (pc = "returned" /\ NoSentence(text)) => ret = Some(50)

\* white space followed by punctuation was scored 50
C10_Witness ==
    /\ pc = "returned"
    /\ trace = <<"calculate_simple_readability">>
    /\ text = " .!"
    /\ ret = Some(50)

\* C11: calculate_simple_readability returns a whole number from 0 to 100 for
\* every text, whatever its numbers of words, of sentences and of words longer
\* than 7 characters, texts with more sentences than words included.
C11_ReadabilityInRange ==
    (pc = "returned" /\ trace = <<"calculate_simple_readability">>) => ret[1] \in 0..100

\* two sentences of one word in all: the average before the clamp is 114
C11_Witness ==
    /\ pc = "returned"
    /\ trace = <<"calculate_simple_readability">>
    /\ text = "a.a"
    /\ Len(Sentences(text)) = 2 /\ WordCount(text) = 1
    /\ ReadabilityOf_unclamped(1, 2, 0) = {114}
    /\ ret = Some(100)

(***************************************************************************)
(* Claims about calculate_keyword_match and calculate_ats_score            *)
(***************************************************************************)
\* C12 as claimed: calculate_keyword_match returns floor(100 * |J \cap R| / |J|),
\* J the words of three or more letters of the lower-cased job description that
\* are not stop words, R the words of the lower-cased resume; 0 when J is empty;
\* always a value from 0 to 100.
C12_KeywordMatchIsFloorOfPercent ==
    (pc = "returned" /\ trace = <<"calculate_keyword_match">>) =>
        LET J == WordTokens(Lower(job_description[1])) \ stop_words
            R == WordTokens(Lower(text))
        IN  /\ ret[1] \in 0..100
            /\ ret[1] = IF J = {} THEN 0
                        ELSE (100 * Cardinality(J \cap R)) \div Cardinality(J)

\* C13: with the points of the other five factors and the keyword match held
\* fixed, raising the points of one factor never lowers the score returned,
\* with or without a job description.
C13_ScoreMonotoneInEachFactor ==
    [][pc' = "raised" => ret'[1] >= ret[1]]_vars

C13_Witness ==
    /\ pc = "raised"
    /\ trace.points = [contact |-> 15, sections |-> 3, skills |-> 10, education |-> 0,
                       experience |-> 5, word_count |-> 7]
    /\ trace.match_score = Some(49)
    /\ ret = Some(49)

C16_ThreeBulletedLinesGiveThreeItems ==
    (pc = "returned" /\ trace = <<"extract_action_items">>) =>
        \A mark \in BulletMarks, lines \in [1..NextStepsLineCount -> NextStepsItems] :
            text = NextStepsText(mark, lines) =>
                \/ ret = [k \in 1..Len(lines) |-> Strip(lines[k])]
                \/ ret = [k \in 1..Len(lines) |-> Strip(mark \o lines[k])]

(***************************************************************************)
(* Claims about extract_experience_years                                   *)
(***************************************************************************)
\* end year - start year of every range year_pattern matches in t, with 2025
\* for an end that is not a year
MatchedRangeDiffs(t) ==
    LET spans == FindIter([i \in 1..Len(t) |-> YearRangeEnd(t, i)], 1)
        isYear(part) == Len(part) = 4 /\ AllIn(part, 1, 4, DigitSet)
    IN  [k \in 1..Len(spans) |->
            (IF isYear(EndPart(t, spans[k])) THEN Int4(EndPart(t, spans[k])) ELSE 2025)
            - Int4(SubSeq(t, spans[k][1], spans[k][1] + 3))]

\* C15: extract_experience_years returns the sum, over every matched year
\* range, of end year - start year for the ranges whose difference is positive,
\* with 'Present' and 'Current' taken as 2025; a range with a zero or negative
\* difference adds nothing, ranges that overlap in time are each counted in
\* full, and the result is 0 when nothing matches.
C15_SumOfPositiveRangeDiffs ==
    (pc = "returned" /\ trace = <<"extract_experience_years">>) =>
        ret[1] = SumSeq(SelectSeq(MatchedRangeDiffs(text), LAMBDA d : d > 0))

(***************************************************************************)
(* Claims about concurrent calls                                           *)
(***************************************************************************)
\* what the call of thread t can return when it runs alone in a fresh process,
\* its load ending as it did (any way, if the thread did not load)
AloneResults(t) ==
    {o.value : o \in UNION {summarize_text(text, NoneVal, pipeline, load, invoke) :
                               load \in IF trace[t].load = NoneVal
                                        THEN LoadOutcomes ELSE {trace[t].load[1]},
                               invoke \in InvokeOutcomes}}

\* C17: the core functions hold no shared mutable state and need no lock: in
\* every interleaving of concurrent calls, first calls of summarize_text
\* included, no call reads state another call wrote (neither the test of
\* _summarizer nor the return statement of get_summarizer sees a value of
\* another thread), and each call returns what it would return run alone.
C17_ConcurrentCallsIndependent ==
    \A t \in Threads :
        /\ trace[t].seen = NoneVal
        /\ trace[t].summarizer \in {NoneVal, trace[t].wrote}
        /\ pc[t] = "done" => ret[t][1] \in AloneResults(t)

(***************************************************************************)
(* Claims about the handlers of app/routes.py                              *)
(***************************************************************************)
\* the request names a document identifier, a non-empty string in the JSON
\* object or in the URL, that is not a key of db
NamesUnknownId(request, db) ==
    /\ request.kind \in {"object", "url"}
    /\ request.transcript_id # NoneVal
    /\ request.transcript_id[1].type = "str"
    /\ request.transcript_id[1].value # ""
    /\ request.transcript_id[1].value \notin DOMAIN db

\* the endpoints that take a document identifier
IdEndpoints ==
    {"summarize", "improve", "analyze", "smart_analyze", "analyze_resume", "result", "export_pdf"}

\* C18: every request to /summarize, /improve, /analyze, /smart_analyze,
\* /analyze_resume, /result/<id> or /export_pdf/<id> that names a document
\* identifier not present in the store is answered with 404, never with 500,
\* calls no core function and leaves the store unchanged.
C18_UnknownIdIsNotFound ==
    [][(trace'.endpoint \in IdEndpoints /\ NamesUnknownId(trace'.request, transcripts_db)) =>
           /\ ret'.status = 404
           /\ ret'.body \in {ErrorBody("Transcript not found"), ErrorBody("Document not found")}
           /\ trace'.calls = <<>>
           /\ transcripts_db' = transcripts_db]_vars

\* a document is stored and a later /smart_analyze request names another id
C18_Witness ==
    /\ pc = 2
    /\ DOMAIN transcripts_db = {"doc-1"}
    /\ trace.endpoint = "smart_analyze"
    /\ NamesUnknownId(trace.request, transcripts_db)
    /\ trace.request.force_type = Some(Str("resume"))
    /\ ret = Response(404, ErrorBody("Document not found"))

\* the endpoints that run an analysis of a stored document
AnalysisEndpoints == {"summarize", "improve", "analyze", "smart_analyze", "analyze_resume"}

\* the input of the request is malformed or missing: no JSON body, a JSON body
\* that is not an object, or an object without transcript_id
MalformedInput(request) ==
    \/ request.kind \in {"none", "array"}
    \/ request.kind = "object" /\ request.transcript_id = NoneVal

\* C19: every request to /summarize, /improve, /analyze, /smart_analyze or
\* /analyze_resume whose input is malformed or missing (no JSON body, a JSON
\* body that is not an object, or an object without transcript_id) is
\* answered with 400; it never reaches a core function and never returns 500.
C19_MalformedInputIs400 ==
    (pc > 0 /\ trace.endpoint \in AnalysisEndpoints /\ MalformedInput(trace.request)) =>
        ret.status = 400 /\ trace.calls = <<>>

\* C20: in smart_analyze a forced type of 'resume' runs the resume analysis
\* and a forced type of 'transcript' runs the transcript analysis, in both
\* cases without a call of detect_document_type, whatever it would return for
\* the text; when no forced type is supplied, the analysis run is the one
\* detect_document_type(text) names, and the document_type stored with its
\* results is that label.
C20_ForcedTypeBypassesClassifier ==
    [][(/\ trace'.endpoint = "smart_analyze"
        /\ Rejections(trace'.request, transcripts_db, "Document not found") = {}
        /\ Named(trace'.request).text.type = "str") =>
           LET request  == trace'.request
               document == Named(request)
               label    == DocumentTypeOf[document.text.value]
               stored   == transcripts_db'[document.id].document_type
           IN  /\ request.force_type = Some(Str("resume")) =>
                      /\ trace'.calls = <<"analyze_resume">>
                      /\ ret'.status = 200 => stored = Some("resume")
               /\ request.force_type = Some(Str("transcript")) =>
                      /\ trace'.calls = <<"analyze_text">>
                      /\ ret'.status = 200 => stored = Some("transcript")
               /\ request.force_type = NoneVal =>
                      /\ trace'.calls = <<"detect_document_type",
                                          IF label = "resume" THEN "analyze_resume"
                                          ELSE "analyze_text">>
                      /\ ret'.status = 200 =>
                             stored = Some(label) /\ ret'.body.document_type = Some(label)]_vars

\* a forced type of 'transcript' on a document the classifier labels 'resume':
\* the transcript analysis ran and its type is stored
C20_Witness ==
    /\ pc = 2
    /\ trace.endpoint = "smart_analyze"
    /\ trace.request.force_type = Some(Str("transcript"))
    /\ ret.status = 200
    /\ trace.calls = <<"analyze_text">>
    /\ transcripts_db["doc-1"].text = Str(ResumeDocument)
    /\ detect_document_type(ResumeDocument) = "resume"
    /\ transcripts_db["doc-1"].document_type = Some("transcript")
    /\ transcripts_db["doc-1"].action_items # NoneVal
    /\ transcripts_db["doc-1"].ats_analysis = NoneVal

(***************************************************************************)
(* Claims about get_improvement_suggestions_ats                            *)
(***************************************************************************)
\* the rules in the order the function evaluates them: the issue a rule
\* reports and whether its trigger holds for the arguments of the call
SuggestionRules ==
    << [issue |-> "Missing email address",   holds |-> ~Truthy(trace.contact.email)],
       [issue |-> "Missing phone number",    holds |-> ~Truthy(trace.contact.phone)],
       [issue |-> "No professional summary", holds |-> ~trace.sections.summary],
       [issue |-> "No skills section",       holds |-> ~trace.sections.skills],
       [issue |-> "No projects section",     holds |-> ~trace.sections.projects],
       [issue |-> "Limited skills listed",   holds |-> TotalSkills(trace.skills) < 8],
       [issue |-> "Lack of quantifiable achievements",
        holds |-> Len(QuantifiedNumbers(text)) < 3] >>

BlendedResults(jd) == FinalScore(Score6(text), Some(calculate_keyword_match(text, jd)))

\* the value of trunc(base) clamped
UnblendedResults == FinalScore(Score6(text), NoneVal)

\* C23: whenever a job-description argument is supplied to calculate_ats_score,
\* for every job-description string, the result is the blend
\* trunc(0.7 * base + 0.3 * match) clamped to 0..100; only when no job
\* description is supplied is the result trunc(base) clamped
C23_BlendForEveryJobDescription ==
    pc = "returned" =>
        IF job_description # NoneVal
        THEN ret[1] \in BlendedResults(job_description[1])
        ELSE ret[1] \in UnblendedResults

\* C23 as the code has it: the result is the blend for every job description
\* that is not the empty string, and trunc(base) clamped when no job
\* description or the empty string is supplied
C23_BlendForNonEmptyJobDescription ==
    pc = "returned" =>
        IF job_description # NoneVal /\ job_description # Some("")
        THEN ret[1] \in BlendedResults(job_description[1])
        ELSE ret[1] \in UnblendedResults

\* a call with a job description has returned a blend that is not trunc(base),
\* and a call with the empty job description is scored like one without
C23_Witness ==
    /\ pc = "returned"
    /\ \/ /\ Truthy(job_description)
          /\ ret[1] \notin UnblendedResults
       \/ /\ job_description = Some("")
          /\ ret[1] \notin BlendedResults("")

\* C24: the word-count factor awards 10 points for every word count from 400
\* to 800, 400 and 800 included, 7 points for every other word count from 300
\* to 1000, 300 and 1000 included, and 3 points otherwise
C24_WordCountTiersInclusive ==
    pc = "returned" =>
        trace.word_count =
            IF WordCount(text) \in 400..800 THEN 10
            ELSE IF WordCount(text) \in 300..1000 THEN 7
            ELSE 3

\* C24 as the code has it: 10 points for the word counts 401 to 799, 7 points
\* for the other word counts from 301 to 999, which include 400 and 800, and
\* 3 points otherwise, which includes 300 and 1000
C24_WordCountTiersExclusive ==
    pc = "returned" =>
        /\ trace.word_count =
              IF WordCount(text) \in 401..799 THEN 10
              ELSE IF WordCount(text) \in 301..999 THEN 7
              ELSE 3
        /\ \A score \in FinalScore(Score6Of(trace), NoneVal) :
              job_description = NoneVal => ret = Some(score)

\* a resume of exactly 400 or 800 words was given 7 points, or one of exactly
\* 300 or 1000 words 3 points
C24_Witness ==
    /\ pc = "returned"
    /\ \/ WordCount(text) \in {400, 800} /\ trace.word_count = 7
       \/ WordCount(text) \in {300, 1000} /\ trace.word_count = 3

\* C26: calculate_ats_score has a positive floor: for every text it returns at
\* least 8 when no job description is used and at least 5 when one is blended
\* in, the skills factor giving at least 5 points and the word-count factor at
\* least 3
C26_ScoreFloor ==
    pc = "returned" =>
        /\ ret[1] >= (IF Truthy(job_description) THEN 5 ELSE 8)
        /\ SkillsPoints(TotalSkills(extract_skills(text))) >= 5
        /\ WordCountPoints(WordCount(text)) >= 3

\* the empty text was scored 5 with a job description blended in
C26_Witness ==
    /\ pc = "returned"
    /\ text = ""
    /\ Truthy(job_description)
    /\ ret = Some(5)

(***************************************************************************)
(* Claims about the sentence-length sub-score of the readability score     *)
(***************************************************************************)
\* trunc((100 + complexity_score) / 2) for w words of which c are complex, that
\* is the floor of (200 w - 100 c) / (2 w); when that quotient is a whole number
\* the value one lower is admitted too, which floats may give
HalfOfHundredAndComplexity(w, c) ==
    {(200 * w - 100 * c) \div (2 * w)}
    \cup (IF (200 * w - 100 * c) % (2 * w) = 0 THEN {(200 * w - 100 * c) \div (2 * w) - 1}
          ELSE {})

\* C25: the sentence-length sub-score of calculate_simple_readability only
\* penalises: it is 100 for every average sentence length of 15 words or fewer,
\* so for a text averaging at most 15 words per sentence the final score is
\* trunc((100 + complexity sub-score) / 2)
C25_ShortSentencesScoreHundred ==
    (/\ pc = "returned"
     /\ trace = <<"calculate_simple_readability">>
     /\ Sentences(text) # <<>>
     /\ WordCount(text) <= 15 * Len(Sentences(text)))
    => ret[1] \in HalfOfHundredAndComplexity(WordCount(text), ComplexWordCount(text))

(***************************************************************************)
(* Claims about the documents of the store                                 *)
(***************************************************************************)
\* the words of the input of summarize_text after its truncation to 900 words
TruncatedWordCount(t) == Min(WordCount(t), 900)

\* C21: every compression_ratio reported for a summarized document, in the
\* result of summarize_text that /summarize returns and in the summary block
\* export_pdf builds for the report, is the summary's word count divided by
\* the word count of the input truncated to at most 900 words (rounded to two
\* decimals, in hundredths)
C21_CompressionRatioIsSummaryOverInput ==
    pc > 0 =>
        /\ (/\ trace.endpoint = "summarize"
            /\ ret.status = 200
            /\ "compression_ratio" \in DOMAIN ret.body.results.summary) =>
               ret.body.results.summary.compression_ratio \in
                   Round2(WordCount(ret.body.results.summary.summary[1]),
                          TruncatedWordCount(Named(trace.request).text.value))
        /\ (/\ trace.endpoint = "export_pdf"
            /\ trace.calls = <<"create_transcript_pdf">>
            /\ ret.status = 200
            /\ Truthy(trace.analysis_data.analysis.summary.summary)) =>
               trace.analysis_data.analysis.summary.compression_ratio \in
                   Round2(WordCount(trace.analysis_data.analysis.summary.summary[1]),
                          TruncatedWordCount(Named(trace.request).text.value))

\* the entries of a document that upload_text sets and no analysis is to touch
UploadFields == {"text", "text_length", "id", "user_id", "title", "created_at"}

\* the documents a request can change: the one its transcript_id names
NamedIds(request) ==
    IF "transcript_id" \in DOMAIN request /\ TruthyValue(request.transcript_id)
    THEN {request.transcript_id[1].value}
    ELSE {}

\* C27: after upload the text of a stored document is never modified: in every
\* step, whichever endpoint is called, every stored document stays stored and
\* keeps its text, text_length, id, user_id, title and created_at, and a call
\* on one document changes no entry of any other document
C27_UploadedFieldsNeverChange ==
    [][\A id \in DOMAIN transcripts_db :
          /\ id \in DOMAIN transcripts_db'
          /\ \A field \in UploadFields : transcripts_db'[id][field] = transcripts_db[id][field]
          /\ id \notin NamedIds(trace'.request) => transcripts_db'[id] = transcripts_db[id]]_vars

\* two documents are stored and the last request analysed the first one: it
\* holds results and its uploaded text, the other is as it was uploaded
C27_Witness ==
    /\ pc = 3
    /\ DOMAIN transcripts_db = {"doc-1", "doc-2"}
    /\ trace.endpoint = "analyze"
    /\ ret.status = 200
    /\ NamedIds(trace.request) = {"doc-1"}
    /\ transcripts_db["doc-1"].status = "analyzed"
    /\ transcripts_db["doc-1"].text = Str(LongTranscript)
    /\ transcripts_db["doc-1"].summary # NoneVal
    /\ transcripts_db["doc-2"] =
          NewDocument("doc-2", transcripts_db["doc-2"].text, ServerTime(1))

\* the entries of a document that hold the result of an analysis
ResultFields == {"summary", "action_items", "key_decisions", "improvements", "ats_analysis"}

\* a stored document whose status fits what it holds
StatusFits(document) ==
    /\ document.status \in {"uploaded", "analyzed"}
    /\ document.status = "analyzed" => document.analyzed_at # NoneVal
    /\ (\E field \in ResultFields : document[field] # NoneVal) => document.status = "analyzed"

\* C28: in every reachable state each document's status is 'uploaded' or
\* 'analyzed'; a document starts 'uploaded' with all analysis fields null, once
\* 'analyzed' it never returns to 'uploaded', 'analyzed' implies that
\* analyzed_at is set, and a document that holds a non-null analysis result
\* (summary, action_items, key_decisions, improvements or ats_analysis) has
\* status 'analyzed'
C28_StatusFollowsAnalysis ==
    [][\A id \in DOMAIN transcripts_db' :
          /\ StatusFits(transcripts_db'[id])
          /\ id \notin DOMAIN transcripts_db =>
                /\ transcripts_db'[id].status = "uploaded"
                /\ \A field \in ResultFields : transcripts_db'[id][field] = NoneVal
          /\ (id \in DOMAIN transcripts_db /\ transcripts_db[id].status = "analyzed") =>
                transcripts_db'[id].status = "analyzed"]_vars

\* the type export_pdf reads: document.get('document_type', 'transcript')
EffectiveType(document) ==
    IF document.document_type = NoneVal THEN "transcript" ELSE document.document_type[1]

\* C29: after every completed analysis of a document its stored document_type
\* is the kind of that analysis, resume for /analyze_resume and a
\* resume-routed /smart_analyze, transcript for /summarize, /analyze and a
\* transcript-routed /smart_analyze (a type never stored counting as
\* transcript), and export_pdf builds the report of the stored type
C29_TypeOfLatestAnalysis ==
    [][/\ (trace'.endpoint \in {"summarize", "analyze", "smart_analyze", "analyze_resume"}
           /\ ret'.status = 200) =>
              \A id \in NamedIds(trace'.request) :
                  EffectiveType(transcripts_db'[id])
                     = IF "analyze_resume" \in ToSet(trace'.calls) THEN "resume" ELSE "transcript"
       /\ (trace'.endpoint = "export_pdf" /\ trace'.calls # <<>>) =>
              trace'.calls = <<"create_" \o EffectiveType(Named(trace'.request)) \o "_pdf">>]_vars

(***************************************************************************)
(* Claims about get_summarizer on concurrent threads                       *)
(***************************************************************************)
\* the threads that have attempted the load of the model
LoadAttempts == {t \in Threads : trace[t].load # NoneVal}

\* C30: the summarization backend is initialised at most once per process:
\* over every interleaving of get_summarizer calls from concurrent threads the
\* load is attempted at most once, and once the global _summarizer is set, to
\* the model or to the fallback, it is never replaced
C30_BackendInitialisedOnce ==
    [][/\ Cardinality(LoadAttempts') <= 1
       /\ summarizer # NoneVal => summarizer' = summarizer]_vars

=============================================================================
